---- MODULE Spec2Model ----
(***************************************************************************)
(* Portfolio / position engine of bitrader (services/exchangeService.ts)   *)
(* and the decision cycle of hooks/useAutoPilot (unnamed/part_001).        *)
(*                                                                         *)
(* Numbers.  The engine computes in IEEE doubles.  Here every quantity is  *)
(* a fixed-point integer and every product/quotient is computed in the     *)
(* order the code computes it, rounding down:                              *)
(*   money and prices  whole USDT                                          *)
(*   coin amounts      1/AmountScale coin                                  *)
(*   fractions         1/PctScale (amountPct 50 is the code's 0.5)         *)
(*   trailingStopPct   percent, as in the code                             *)
(*   time              milliseconds since the session started              *)
(* An optional field that is absent holds the value undefined; JavaScript  *)
(* truthiness of a number is Truthy.                                       *)
(***************************************************************************)
EXTENDS Integers, Sequences, FiniteSets, TLC

\* ---------------------------------------------------------------- bounds
MaxTrades == 2          \* Spec: no outside call of executeOrder once tradeHistory holds this many
MaxHedgeTrades == 3     \* SpecHedge: the same, for the futures-only order set
MaxRiskTrades == 2      \* SpecRisk: the same, for the orders that carry stops
MaxBreakerTrades == 4   \* SpecBreaker: the same, for the spot order set that builds a losing streak
MaxCycleTrades == 5     \* SpecCycle: no decision is executed once tradeHistory holds this many
MaxClock == 2           \* Date.now() advances at most this many TimeSteps
MaxStreamTrades == 1    \* SpecStream: no outside call of executeOrder once tradeHistory holds this many
MaxDustTrades == 3      \* SpecDust: the same, for the orders that close all but a hundredth
MaxWorkedTrades == 3    \* SpecWorked: the same, for the orders of the worked scenarios
MaxFeedCandles == 101   \* SpecFeed: the same, far enough for a bootstrapped history to pass the cap
MaxOffCloses == 1       \* SpecFeed: at most this many candles of a history close away from 100
MaxNewCandles == 1      \* the stream opens at most this many candles after the bootstrap
MaxSessionTrades == 2   \* SpecSession: no outside call of executeOrder once tradeHistory holds this many
MaxSessionPoints == 3   \* SpecSession: no page load once equityHistory holds this many points
MaxLiveTrades == 3      \* SpecLive: no call of executeOrder once tradeHistory holds this many
MaxEquityTrades == 5    \* SpecEquity: the same
MaxScanTrades == 3      \* SpecScan: no outside call of executeOrder once tradeHistory holds this many
MaxFundsTrades == 3     \* SpecFunds: the same
MaxLockTrades == 1      \* SpecLock: no decision is executed once tradeHistory holds this many
MaxLoopTrades == 2      \* SpecLoop: no outside call of executeOrder once tradeHistory holds this many
SeasonedPoints == 997   \* SpecEquity: the equity points the session starts with

\* ------------------------------------------------------ fixed-point units
AmountScale == 1000
PctScale == 100
TimeStep == 1800000

\* ------------------------------------------------------ configuration
\* BotConfig.minPulse and BotConfig.maxPulse, in ms
MinPulse == TimeStep
MaxPulse == 2 * TimeStep

\* Date.now() when the session starts, counted from an origin early enough that the 0
\* the refs and lastSnapshotTime start from lies a full pulse in the past
StartTime == MaxPulse

\* the candles marketMap holds for every symbol once getInitialData has answered
InitialKlines == 100

\* the stream's candles are one minute long (kline_1m), their open time in seconds
CandleSeconds == 60

\* the longest history marketMap keeps for a symbol
MaxHistory == 200

\* the fewest candles the council is convened on
MinCouncilTickers == 50

\* ------------------------------------------------------ program constants
MAX_CONSECUTIVE_LOSSES == 3
COOL_DOWN_PERIOD_MS == 3600000
InitialBalance == 10000
SnapshotIntervalMs == 60000
MaxEquityHistory == 1000
MinFuturesMargin == 10
MinSpotSpend == 10
FuturesDust == 10
SpotDust == 5

undefined == 0 - 1000000000

Truthy(x) == x # undefined /\ x # 0

OrZero(x) == IF Truthy(x) THEN x ELSE 0

Max(a, b) == IF a >= b THEN a ELSE b

Min(a, b) == IF a <= b THEN a ELSE b

\* ----------------------------------------------------------- input sets
Symbols == {"BTCUSDT", "ETHUSDT"}

Prices == {60, 100, 140}

\* two prices are enough for a close at a loss, at a gain and at break-even
BreakerPrices == {60, 100}

Actions == {"BUY", "SELL", "OPEN_LONG", "OPEN_SHORT", "CLOSE_LONG", "CLOSE_SHORT"}

MarketTypes == {"SPOT", "FUTURES"}

AmountPcts == {0, 50, 100}

Leverages == {1, 5}

\* stopLoss / takeProfit / trailingStopPct as one call passes them
NoRisk == [stopLoss |-> undefined, takeProfit |-> undefined, trailingStopPct |-> undefined]

TightRisk == [stopLoss |-> 90, takeProfit |-> 60, trailingStopPct |-> 10]

\* the calls executeOrder(action, amountPct, symbol, reason, stopLoss, takeProfit,
\* strategyUsed, trailingStopPct, marketType, leverage) over the given argument sets
OrdersOver(actions, amountPcts, symbols, risks, marketTypes, leverages, reason) ==
    { [action |-> a, amountPct |-> f, symbol |-> s, reason |-> reason,
       stopLoss |-> r.stopLoss, takeProfit |-> r.takeProfit, strategyUsed |-> reason,
       trailingStopPct |-> r.trailingStopPct, marketType |-> m, leverage |-> l] :
        a \in actions, f \in amountPcts, s \in symbols, r \in risks,
        m \in marketTypes, l \in leverages }

Orders ==
    OrdersOver(Actions, AmountPcts, Symbols, {NoRisk, TightRisk}, MarketTypes, Leverages, "Manual")

\* opens that carry a stop-loss, a take-profit and a trailing stop
RiskOrders ==
    OrdersOver({"BUY", "OPEN_LONG", "OPEN_SHORT"}, {50}, Symbols, {TightRisk}, MarketTypes,
               Leverages, "Manual")

\* futures opens and closes on one symbol, for runs that stack several positions
HedgeOrders ==
    OrdersOver({"OPEN_LONG", "OPEN_SHORT", "CLOSE_LONG", "CLOSE_SHORT"}, {50, 100},
               {"BTCUSDT"}, {NoRisk}, {"FUTURES"}, {1}, "Manual")

\* futures opens with stops on either symbol, for runs under the market stream
StreamOrders ==
    OrdersOver({"OPEN_LONG"}, {50}, Symbols, {TightRisk}, {"FUTURES"}, {5}, "Manual")

\* opens of a hundredth or all of the balance and closes of all or all but a hundredth
\* of a position, on one symbol: what a close leaves is worth less or more than the dust
DustOrders ==
    OrdersOver({"BUY", "SELL", "OPEN_LONG", "CLOSE_LONG"}, {1, 99, 100}, {"BTCUSDT"},
               {NoRisk}, MarketTypes, {1}, "Manual")

\* the prices of the worked scenarios: a spot round trip from 100 to 120, a futures
\* open at 1000
WorkedPrices == {100, 120, 1000}

\* the orders of the worked scenarios: spot buys and sells of a half or all, futures
\* opens of a tenth at leverage 3 and closes of a half or all
WorkedOrders ==
    OrdersOver({"BUY", "SELL"}, {50, 100}, {"BTCUSDT"}, {NoRisk}, {"SPOT"}, {1}, "Manual")
    \cup OrdersOver({"OPEN_LONG", "OPEN_SHORT"}, {10}, {"BTCUSDT"}, {NoRisk}, {"FUTURES"},
                    {3}, "Manual")
    \cup OrdersOver({"CLOSE_LONG", "CLOSE_SHORT"}, {50, 100}, {"BTCUSDT"}, {NoRisk},
                    {"FUTURES"}, {3}, "Manual")

\* opens of a half of the balance in either bucket, for runs that end in a liquidation
SessionOrders ==
    OrdersOver({"BUY"}, {50}, {"BTCUSDT"}, {NoRisk}, {"SPOT"}, {1}, "Manual")
    \cup OrdersOver({"OPEN_LONG", "OPEN_SHORT"}, {50}, {"BTCUSDT"}, {NoRisk}, {"FUTURES"},
                    {1}, "Manual")

\* the credentials a call of executeOrder may pass: both keys, or the API key alone
Credentials == {[apiKey |-> "key", secretKey |-> "secret"], [apiKey |-> "key", secretKey |-> ""]}

\* what the exchange does with a real order
Replies == {"filled", "throws"}

\* spot orders of a half on one symbol, without credentials and with them
LiveOrders ==
    LET plain == OrdersOver({"BUY", "SELL"}, {50}, {"BTCUSDT"}, {NoRisk}, {"SPOT"}, {1},
                            "Manual")
    IN plain \cup { o @@ [credentials |-> c, reply |-> r] :
                        o \in plain, c \in Credentials, r \in Replies }

\* futures opens of either side with stops and a spot buy on one symbol: an open of the
\* other side flips the position, and a liquidation finds a position in each bucket
LoopOrders ==
    OrdersOver({"OPEN_LONG", "OPEN_SHORT"}, {50}, {"BTCUSDT"}, {TightRisk}, {"FUTURES"}, {5},
               "Manual")
    \cup OrdersOver({"BUY"}, {50}, {"BTCUSDT"}, {NoRisk}, {"SPOT"}, {1}, "Manual")

\* futures opens of a half on one symbol, either side: positions stack and flip
ScanOrders ==
    OrdersOver({"OPEN_LONG", "OPEN_SHORT"}, {50}, {"BTCUSDT"}, {NoRisk}, {"FUTURES"}, {1},
               "Manual")

\* prices at which what an order buys is a whole number of thousandths of a coin
FundsPrices == {10, 100}

\* a spot buy of all the cash and sells of all or more than all of the position, a
\* futures long of a half and closes of a half, of all but a hundredth and of more
\* than all of it, on one symbol
FundsOrders ==
    OrdersOver({"BUY"}, {100}, {"BTCUSDT"}, {NoRisk}, {"SPOT"}, {1}, "Manual")
    \cup OrdersOver({"SELL"}, {100, 150}, {"BTCUSDT"}, {NoRisk}, {"SPOT"}, {1}, "Manual")
    \cup OrdersOver({"OPEN_LONG"}, {50}, {"BTCUSDT"}, {NoRisk}, {"FUTURES"}, {1}, "Manual")
    \cup OrdersOver({"CLOSE_LONG"}, {50, 99, 150}, {"BTCUSDT"}, {NoRisk}, {"FUTURES"}, {1},
                    "Manual")

\* spot buys and partial sells on one symbol: one buy can be sold off in several closes
BreakerOrders ==
    OrdersOver({"BUY", "SELL"}, {50}, {"BTCUSDT"}, {NoRisk}, {"SPOT"}, {1}, "Manual")

\* what evaluateGlobalMarkets resolves to
ScanResults ==
    [selectedSymbol : Symbols, marketCondition : {"BORING", "VOLATILE"},
     needsEscalation : BOOLEAN]

\* AIDecision.confidence, 0-100: none at all, and full
Confidences == {0, 100}

\* what conveneCouncil resolves to: the fields of the AIDecision that reach executeOrder
Decisions ==
    [action : {"HOLD", "BUY", "SELL"}, suggestedAmountPct : {0, 50}, marketType : {"SPOT"},
     leverage : {1}, stopLossPrice : {undefined}, takeProfitPrice : {undefined},
     trailingStopPct : {undefined}, confidence : Confidences]

\* ------------------------------------------------------------ sequences
RemoveAt(s, i) == [j \in 1..(Len(s) - 1) |-> IF j < i THEN s[j] ELSE s[j + 1]]

\* Array.prototype.findIndex(p => p.symbol === symbol), 1-based, 0 when absent
FindIndex(positions, symbol) ==
    IF \E i \in DOMAIN positions : positions[i].symbol = symbol
    THEN CHOOSE i \in DOMAIN positions :
            /\ positions[i].symbol = symbol
            /\ \A j \in DOMAIN positions : positions[j].symbol = symbol => i <= j
    ELSE 0

RECURSIVE SumUnrealized(_)
SumUnrealized(positions) ==
    IF positions = <<>> THEN 0
    ELSE Head(positions).unrealizedPnL + SumUnrealized(Tail(positions))

\* amount (in 1/AmountScale coin) times price, in USDT
Value(amount, price) == (amount * price) \div AmountScale

\* ------------------------------------------------------------ recompute
\* a spot recompute that adds the unrealized PnL of the call to the one stored
CalcSpotPositionAccumulates(pos, price) ==
    LET newHigh == IF Truthy(pos.highestPriceSinceEntry)
                   THEN Max(pos.highestPriceSinceEntry, price) ELSE price
        uPnL == Value(pos.amount, price) - Value(pos.amount, pos.entryPrice)
    IN [pos EXCEPT !.currentPrice = price,
                   !.highestPriceSinceEntry = newHigh,
                   !.unrealizedPnL = OrZero(@) + uPnL]

\* calculateEquity, one spot position
CalcSpotPosition(pos, price) ==
    LET newHigh == IF Truthy(pos.highestPriceSinceEntry)
                   THEN Max(pos.highestPriceSinceEntry, price) ELSE price
        proposedTrigger == (newHigh * (100 - pos.trailingStopPct)) \div 100
        newTrailingTrigger ==
            IF Truthy(pos.trailingStopPct) /\ newHigh > OrZero(pos.highestPriceSinceEntry)
            THEN IF ~Truthy(pos.trailingStopTrigger) \/ proposedTrigger > pos.trailingStopTrigger
                 THEN proposedTrigger ELSE pos.trailingStopTrigger
            ELSE pos.trailingStopTrigger
        currentVal == Value(pos.amount, price)
        costBasis == Value(pos.amount, pos.entryPrice)
        uPnL == currentVal - costBasis
    IN [pos EXCEPT !.currentPrice = price,
                   !.highestPriceSinceEntry = newHigh,
                   !.trailingStopTrigger = newTrailingTrigger,
                   !.unrealizedPnL = uPnL,
                   !.pnlPercentage = IF costBasis > 0 THEN (uPnL * 100) \div costBasis ELSE 0]

\* a recompute that re-derives the trigger from the price just fed, without the
\* high-water mark and without the "only if it tightens" test
CalcFuturesPositionLoose(pos, price) ==
    LET isLong == pos.side = "LONG"
        direction == IF isLong THEN 1 ELSE 0 - 1
        uPnL == ((price - pos.entryPrice) * pos.amount * direction) \div AmountScale
        proposed == IF isLong
                    THEN (price * (100 - pos.trailingStopPct)) \div 100
                    ELSE (price * (100 + pos.trailingStopPct)) \div 100
    IN [pos EXCEPT !.currentPrice = price,
                   !.highestPriceSinceEntry = price,
                   !.trailingStopTrigger = IF Truthy(pos.trailingStopPct) THEN proposed ELSE @,
                   !.unrealizedPnL = uPnL,
                   !.pnlPercentage = IF Truthy(pos.marginUsed)
                                     THEN (uPnL * 100) \div pos.marginUsed ELSE 0]

\* calculateEquity, one futures position
CalcFuturesPosition(pos, price) ==
    LET isLong == pos.side = "LONG"
        direction == IF isLong THEN 1 ELSE 0 - 1
        uPnL == ((price - pos.entryPrice) * pos.amount * direction) \div AmountScale
        pnlPct == IF Truthy(pos.marginUsed) THEN (uPnL * 100) \div pos.marginUsed ELSE 0
        startMark == IF Truthy(pos.highestPriceSinceEntry)
                     THEN pos.highestPriceSinceEntry ELSE pos.entryPrice
        newHighOrLow == IF isLong THEN Max(startMark, price) ELSE Min(startMark, price)
        proposed == IF isLong
                    THEN (newHighOrLow * (100 - pos.trailingStopPct)) \div 100
                    ELSE (newHighOrLow * (100 + pos.trailingStopPct)) \div 100
        tightens == IF isLong THEN proposed > pos.trailingStopTrigger
                    ELSE proposed < pos.trailingStopTrigger
        newTrailingTrigger ==
            IF Truthy(pos.trailingStopPct)
            THEN IF ~Truthy(pos.trailingStopTrigger) \/ tightens
                 THEN proposed ELSE pos.trailingStopTrigger
            ELSE pos.trailingStopTrigger
    IN [pos EXCEPT !.currentPrice = price,
                   !.highestPriceSinceEntry = newHighOrLow,
                   !.trailingStopTrigger = newTrailingTrigger,
                   !.unrealizedPnL = uPnL,
                   !.pnlPercentage = pnlPct]

\* a recompute under which the liquidation price of a futures position follows the price
calculateEquityMovesLiquidation(pf, price) ==
    LET spot == [i \in DOMAIN pf.spotPositions |-> CalcSpotPosition(pf.spotPositions[i], price)]
        futures == [i \in DOMAIN pf.futuresPositions |->
                        [CalcFuturesPosition(pf.futuresPositions[i], price) EXCEPT
                            !.liquidationPrice = @ + (price - pf.futuresPositions[i].currentPrice)]]
    IN [pf EXCEPT !.spotPositions = spot,
                  !.futuresPositions = futures,
                  !.equity = pf.balance + (SumUnrealized(spot) + SumUnrealized(futures))]

\* calculateEquity: both buckets are re-valued at the one module-level currentPrice
calculateEquity(pf, price) ==
    LET spot == [i \in DOMAIN pf.spotPositions |-> CalcSpotPosition(pf.spotPositions[i], price)]
        futures == [i \in DOMAIN pf.futuresPositions |->
                        CalcFuturesPosition(pf.futuresPositions[i], price)]
    IN [pf EXCEPT !.spotPositions = spot,
                  !.futuresPositions = futures,
                  !.equity = pf.balance + (SumUnrealized(spot) + SumUnrealized(futures))]

\* ------------------------------------------------------------ the engine
\* The module-level state of exchangeService.ts that executeOrder reads and writes,
\* bundled so that the operations below can be written as functions:
\*   portfolio, lastSnapshotTime, db (the record last written by saveToDB) and
\*   nextId (stands for Math.random(): each id drawn is a fresh one).

\* a capture that pushes and never shifts
captureEquitySnapshotUnbounded(E, t) ==
    [E EXCEPT !.portfolio.equityHistory =
                Append(@, [time |-> t, equity |-> E.portfolio.equity,
                           balance |-> E.portfolio.balance]),
              !.lastSnapshotTime = t]

captureEquitySnapshot(E, t) ==
    LET pushed == Append(E.portfolio.equityHistory,
                         [time |-> t, equity |-> E.portfolio.equity, balance |-> E.portfolio.balance])
        kept == IF Len(pushed) > MaxEquityHistory THEN Tail(pushed) ELSE pushed
    IN [E EXCEPT !.portfolio.equityHistory = kept, !.lastSnapshotTime = t]

\* a save that stamps the portfolio and leaves the store as it was
savePortfolioStateUnwritten(E, t) ==
    [E EXCEPT !.portfolio.lastUpdated = t]

savePortfolioState(E, t) ==
    LET stamped == [E.portfolio EXCEPT !.lastUpdated = t]
    IN [E EXCEPT !.portfolio = stamped, !.db = <<stamped>>]

\* updateCurrentPrice(price), but for the assignment to currentPrice
updateCurrentPrice(E, price, t) ==
    LET E1 == [E EXCEPT !.portfolio = calculateEquity(@, price)]
    IN IF t - E.lastSnapshotTime > SnapshotIntervalMs THEN captureEquitySnapshot(E1, t)
       ELSE E1

SideOf(action) ==
    IF action \in {"SELL", "OPEN_SHORT", "CLOSE_LONG"} THEN "SELL" ELSE "BUY"

\* a recording that writes the trade over the newest one instead of unshifting it
RecordTradeOverNewest(E, trade, t) ==
    savePortfolioState(
        captureEquitySnapshot(
            [E EXCEPT !.portfolio.tradeHistory =
                        <<trade>> \o (IF @ = <<>> THEN <<>> ELSE Tail(@))], t), t)

\* tradeHistory.unshift(trade); captureEquitySnapshot(); savePortfolioState()
RecordTrade(E, trade, t) ==
    savePortfolioState(
        captureEquitySnapshot([E EXCEPT !.portfolio.tradeHistory = <<trade>> \o @], t), t)

\* executeOrder, lines 309-337: close amountPct of the first futures position on the symbol
FuturesClose(E, price, t, o, idx) ==
    LET pf == E.portfolio
        existingPos == pf.futuresPositions[idx]
        amountToClose == (existingPos.amount * o.amountPct) \div PctScale
        direction == IF existingPos.side = "LONG" THEN 1 ELSE 0 - 1
        pnl == ((price - existingPos.entryPrice) * amountToClose * direction) \div AmountScale
        marginReleased == (OrZero(existingPos.marginUsed) * o.amountPct) \div PctScale
        reduced == [existingPos EXCEPT !.amount = @ - amountToClose,
                                       !.marginUsed = OrZero(@) - marginReleased]
        positions == IF Value(reduced.amount, price) < FuturesDust
                     THEN RemoveAt(pf.futuresPositions, idx)
                     ELSE [pf.futuresPositions EXCEPT ![idx] = reduced]
        trade == [id |-> E.nextId, symbol |-> o.symbol, marketType |-> "FUTURES",
                  side |-> SideOf(o.action), price |-> price, amount |-> amountToClose,
                  cost |-> marginReleased, leverage |-> existingPos.leverage,
                  timestamp |-> t, pnl |-> pnl, reason |-> o.reason,
                  strategyUsed |-> o.strategyUsed]
        E1 == [E EXCEPT !.portfolio.balance = @ + (marginReleased + pnl),
                        !.portfolio.futuresPositions = positions,
                        !.nextId = @ + 1]
    IN [e |-> RecordTrade(E1, trade, t), trade |-> <<trade>>]

\* executeOrder, lines 347-391: open a futures position with whatever leverage was passed
FuturesOpen(E, price, t, o) ==
    LET pf == E.portfolio
        budget == (pf.balance * o.amountPct) \div PctScale
        notionalValue == budget * o.leverage
        amount == (notionalValue * AmountScale) \div price
        isLong == o.action = "OPEN_LONG"
        liqPrice == IF isLong
                    THEN (price * ((101 * o.leverage) - 100)) \div (100 * o.leverage)
                    ELSE (price * ((99 * o.leverage) + 100)) \div (100 * o.leverage)
        trailingTrigger ==
            IF Truthy(o.trailingStopPct)
            THEN IF isLong THEN (price * (100 - o.trailingStopPct)) \div 100
                 ELSE (price * (100 + o.trailingStopPct)) \div 100
            ELSE undefined
        newPos == [id |-> E.nextId, symbol |-> o.symbol, marketType |-> "FUTURES",
                   side |-> IF isLong THEN "LONG" ELSE "SHORT",
                   amount |-> amount, entryPrice |-> price, currentPrice |-> price,
                   leverage |-> o.leverage, marginUsed |-> budget,
                   liquidationPrice |-> liqPrice, unrealizedPnL |-> 0, pnlPercentage |-> 0,
                   stopLoss |-> o.stopLoss, takeProfit |-> o.takeProfit,
                   trailingStopPct |-> o.trailingStopPct,
                   trailingStopTrigger |-> trailingTrigger,
                   highestPriceSinceEntry |-> price]
        trade == [id |-> E.nextId + 1, symbol |-> o.symbol, marketType |-> "FUTURES",
                  side |-> SideOf(o.action), price |-> price, amount |-> amount,
                  cost |-> budget, leverage |-> o.leverage, timestamp |-> t,
                  pnl |-> undefined, reason |-> o.reason, strategyUsed |-> o.strategyUsed]
        E1 == [E EXCEPT !.portfolio.balance = @ - budget,
                        !.portfolio.futuresPositions = Append(@, newPos),
                        !.nextId = @ + 2]
    IN IF budget < MinFuturesMargin
       THEN [e |-> E, trade |-> <<>>]
       ELSE [e |-> RecordTrade(E1, trade, t), trade |-> <<trade>>]

\* executeOrder, lines 417-449: simulated spot buy, merging into an existing position
SpotBuy(E, price, t, o) ==
    LET pf == E.portfolio
        budget == (pf.balance * Min(o.amountPct, PctScale)) \div PctScale
        amount == (budget * AmountScale) \div price
        trailingTrigger == IF Truthy(o.trailingStopPct)
                           THEN (price * (100 - o.trailingStopPct)) \div 100
                           ELSE undefined
        idx == FindIndex(pf.spotPositions, o.symbol)
        existing == pf.spotPositions[idx]
        totalCost == Value(existing.amount, existing.entryPrice) + budget
        mergedAmount == existing.amount + amount
        merged == [existing EXCEPT
                     !.amount = mergedAmount,
                     !.entryPrice = (totalCost * AmountScale) \div mergedAmount,
                     !.stopLoss = IF Truthy(o.stopLoss) THEN o.stopLoss ELSE @,
                     !.takeProfit = IF Truthy(o.takeProfit) THEN o.takeProfit ELSE @,
                     !.trailingStopPct = IF Truthy(o.trailingStopPct)
                                         THEN o.trailingStopPct ELSE @]
        newPos == [id |-> E.nextId, symbol |-> o.symbol, marketType |-> "SPOT",
                   side |-> "LONG", amount |-> amount, entryPrice |-> price,
                   currentPrice |-> price, leverage |-> 1, marginUsed |-> undefined,
                   liquidationPrice |-> undefined, unrealizedPnL |-> 0, pnlPercentage |-> 0,
                   stopLoss |-> o.stopLoss, takeProfit |-> o.takeProfit,
                   trailingStopPct |-> o.trailingStopPct,
                   trailingStopTrigger |-> trailingTrigger,
                   highestPriceSinceEntry |-> price]
        positions == IF idx # 0 THEN [pf.spotPositions EXCEPT ![idx] = merged]
                     ELSE Append(pf.spotPositions, newPos)
        used == IF idx # 0 THEN 0 ELSE 1
        trade == [id |-> E.nextId + used, symbol |-> o.symbol, marketType |-> "SPOT",
                  side |-> "BUY", price |-> price, amount |-> amount, cost |-> budget,
                  leverage |-> 1, timestamp |-> t, pnl |-> undefined,
                  reason |-> o.reason, strategyUsed |-> o.strategyUsed]
        E1 == [E EXCEPT !.portfolio.balance = @ - budget,
                        !.portfolio.spotPositions = positions,
                        !.nextId = @ + used + 1]
    IN IF budget < MinSpotSpend
       THEN [e |-> E, trade |-> <<>>]
       ELSE [e |-> RecordTrade(E1, trade, t), trade |-> <<trade>>]

\* a spot sell without the dust test after it: the position stays whatever is left
SpotSellKeepsDust(E, price, t, o) ==
    LET pf == E.portfolio
        idx == FindIndex(pf.spotPositions, o.symbol)
        pos == pf.spotPositions[idx]
        amountToSell == (pos.amount * o.amountPct) \div PctScale
        revenue == Value(amountToSell, price)
        trade == [id |-> E.nextId, symbol |-> o.symbol, marketType |-> "SPOT",
                  side |-> "SELL", price |-> price, amount |-> amountToSell,
                  cost |-> revenue, leverage |-> 1, timestamp |-> t,
                  pnl |-> revenue - Value(amountToSell, pos.entryPrice),
                  reason |-> o.reason, strategyUsed |-> o.strategyUsed]
        E1 == [E EXCEPT !.portfolio.balance = @ + revenue,
                        !.portfolio.spotPositions[idx].amount = @ - amountToSell,
                        !.nextId = @ + 1]
    IN IF idx = 0
       THEN [e |-> E, trade |-> <<>>]
       ELSE [e |-> RecordTrade(E1, trade, t), trade |-> <<trade>>]

\* executeOrder, lines 452-471: simulated spot sell
SpotSell(E, price, t, o) ==
    LET pf == E.portfolio
        idx == FindIndex(pf.spotPositions, o.symbol)
        pos == pf.spotPositions[idx]
        amountToSell == (pos.amount * o.amountPct) \div PctScale
        revenue == Value(amountToSell, price)
        costBasis == Value(amountToSell, pos.entryPrice)
        pnl == revenue - costBasis
        reduced == [pos EXCEPT !.amount = @ - amountToSell]
        positions == IF Value(reduced.amount, price) < SpotDust
                     THEN RemoveAt(pf.spotPositions, idx)
                     ELSE [pf.spotPositions EXCEPT ![idx] = reduced]
        trade == [id |-> E.nextId, symbol |-> o.symbol, marketType |-> "SPOT",
                  side |-> "SELL", price |-> price, amount |-> amountToSell,
                  cost |-> revenue, leverage |-> 1, timestamp |-> t, pnl |-> pnl,
                  reason |-> o.reason, strategyUsed |-> o.strategyUsed]
        E1 == [E EXCEPT !.portfolio.balance = @ + revenue,
                        !.portfolio.spotPositions = positions,
                        !.nextId = @ + 1]
    IN IF idx = 0
       THEN [e |-> E, trade |-> <<>>]
       ELSE [e |-> RecordTrade(E1, trade, t), trade |-> <<trade>>]

\* the order executeOrder issues to itself at line 344 before opening the other side
FlipOrder(o) ==
    [action |-> IF o.action = "OPEN_LONG" THEN "CLOSE_SHORT" ELSE "CLOSE_LONG",
     amountPct |-> PctScale, symbol |-> o.symbol, reason |-> "Flip Position",
     stopLoss |-> 0, takeProfit |-> 0, strategyUsed |-> "Auto", trailingStopPct |-> 0,
     marketType |-> "FUTURES", leverage |-> o.leverage]

\* the credentials argument of executeOrder: a call may leave it out
HasApiKey(o) == "credentials" \in DOMAIN o /\ o.credentials.apiKey # ""

\* executeRealBinanceOrder(symbol, 'BUY', budget, true, credentials): it throws without
\* both keys and when the exchange or the network fails, and resolves to the fill
\* otherwise, whose cost is the quote amount asked for; reply is what the exchange did
executeRealBinanceOrder(budget, credentials, reply) ==
    IF credentials.apiKey = "" \/ credentials.secretKey = "" \/ reply = "throws"
    THEN [threw |-> TRUE, cost |-> 0]
    ELSE [threw |-> FALSE, cost |-> budget]

\* executeOrder, lines 398-414: the real spot order placed before the simulated one.
\* A real BUY takes its cost off the balance; a real SELL is not written. The reply is
\* taken to arrive before anything else happens.
RealSpot(E, o) ==
    IF E.tradingMode = "REAL_MONEY" /\ HasApiKey(o) /\ SideOf(o.action) = "BUY"
    THEN LET budget == (E.portfolio.balance * Min(o.amountPct, PctScale)) \div PctScale
             res == executeRealBinanceOrder(budget, o.credentials, o.reply)
         IN IF res.threw THEN [e |-> E, threw |-> TRUE]
            ELSE [e |-> [E EXCEPT !.portfolio.balance = @ - res.cost], threw |-> FALSE]
    ELSE [e |-> E, threw |-> FALSE]

\* executeOrder. Returns the engine after the call and the Trade returned (<<>> for null).
RECURSIVE executeOrder(_, _, _, _)
executeOrder(E, price, t, o) ==
    IF o.amountPct <= 0 \/ price = 0
    THEN [e |-> E, trade |-> <<>>]
    ELSE IF o.marketType = "FUTURES"
    THEN LET idx == FindIndex(E.portfolio.futuresPositions, o.symbol)
             existingSide == IF idx = 0 THEN "NONE" ELSE E.portfolio.futuresPositions[idx].side
         IN IF \/ (o.action = "CLOSE_LONG" /\ existingSide = "LONG")
               \/ (o.action = "CLOSE_SHORT" /\ existingSide = "SHORT")
            THEN FuturesClose(E, price, t, o, idx)
            ELSE IF o.action \in {"OPEN_LONG", "OPEN_SHORT"}
            THEN LET wanted == IF o.action = "OPEN_LONG" THEN "LONG" ELSE "SHORT"
                     afterFlip == IF idx # 0 /\ existingSide # wanted
                                  THEN executeOrder(E, price, t, FlipOrder(o)).e
                                  ELSE E
                 IN FuturesOpen(afterFlip, price, t, o)
            ELSE [e |-> E, trade |-> <<>>]
    ELSE LET real == RealSpot(E, o)
         IN IF real.threw THEN [e |-> E, trade |-> <<>>]
            ELSE IF SideOf(o.action) = "BUY"
            THEN SpotBuy(real.e, price, t, o)
            ELSE SpotSell(real.e, price, t, o)

\* ------------------------------------------------------------ triggers
SpotTriggerReason(pos, price) ==
    IF Truthy(pos.stopLoss) /\ price <= pos.stopLoss THEN "Spot SL"
    ELSE IF Truthy(pos.takeProfit) /\ price >= pos.takeProfit THEN "Spot TP"
    ELSE IF Truthy(pos.trailingStopTrigger) /\ price <= pos.trailingStopTrigger
         THEN "Spot Trailing"
    ELSE "none"

LiquidationHit(pos, price) ==
    /\ Truthy(pos.liquidationPrice)
    /\ IF pos.side = "LONG" THEN price <= pos.liquidationPrice
       ELSE price >= pos.liquidationPrice

StopLossHit(pos, price) ==
    /\ Truthy(pos.stopLoss)
    /\ IF pos.side = "LONG" THEN price <= pos.stopLoss ELSE price >= pos.stopLoss

TakeProfitHit(pos, price) ==
    /\ Truthy(pos.takeProfit)
    /\ IF pos.side = "LONG" THEN price >= pos.takeProfit ELSE price <= pos.takeProfit

TrailingHit(pos, price) ==
    /\ Truthy(pos.trailingStopTrigger)
    /\ IF pos.side = "LONG" THEN price <= pos.trailingStopTrigger
       ELSE price >= pos.trailingStopTrigger

\* a scan that tests the fixed stop-loss before liquidation
FuturesTriggerReasonStopFirst(pos, price) ==
    IF StopLossHit(pos, price) THEN "Futures SL"
    ELSE IF LiquidationHit(pos, price) THEN "LIQUIDATION"
    ELSE IF TakeProfitHit(pos, price) THEN "Futures TP"
    ELSE IF TrailingHit(pos, price) THEN "Futures Trailing"
    ELSE "none"

\* checkTradeTriggers, lines 251-273: the first test that hits, in the code's order
FuturesTriggerReason(pos, price) ==
    IF LiquidationHit(pos, price) THEN "LIQUIDATION"
    ELSE IF StopLossHit(pos, price) THEN "Futures SL"
    ELSE IF TakeProfitHit(pos, price) THEN "Futures TP"
    ELSE IF TrailingHit(pos, price) THEN "Futures Trailing"
    ELSE "none"

RiskOrder(action, symbol, reason, marketType, leverage) ==
    [action |-> action, amountPct |-> PctScale, symbol |-> symbol, reason |-> reason,
     stopLoss |-> 0, takeProfit |-> 0, strategyUsed |-> "Risk", trailingStopPct |-> 0,
     marketType |-> marketType, leverage |-> leverage]

\* The order the scan of checkTradeTriggers issues: the first spot position with a
\* trigger hit, else the first futures position with one; <<>> when nothing is hit.
TriggerOrder(pf, price) ==
    LET spotHits == {i \in DOMAIN pf.spotPositions :
                        SpotTriggerReason(pf.spotPositions[i], price) # "none"}
        futHits == {i \in DOMAIN pf.futuresPositions :
                        FuturesTriggerReason(pf.futuresPositions[i], price) # "none"}
        first(S) == CHOOSE i \in S : \A j \in S : i <= j
    IN IF spotHits # {}
       THEN LET pos == pf.spotPositions[first(spotHits)]
            IN <<RiskOrder("SELL", pos.symbol, SpotTriggerReason(pos, price), "SPOT", 1)>>
       ELSE IF futHits # {}
       THEN LET pos == pf.futuresPositions[first(futHits)]
            IN <<RiskOrder(IF pos.side = "LONG" THEN "CLOSE_LONG" ELSE "CLOSE_SHORT",
                           pos.symbol, FuturesTriggerReason(pos, price), "FUTURES",
                           pos.leverage)>>
       ELSE <<>>

\* checkTradeTriggers: recompute, scan, execute the first hit
checkTradeTriggers(E, price, t) ==
    IF price = 0 THEN [e |-> E, trade |-> <<>>]
    ELSE LET E1 == [E EXCEPT !.portfolio = calculateEquity(@, price)]
             hit == TriggerOrder(E1.portfolio, price)
         IN IF hit = <<>> THEN [e |-> E1, trade |-> <<>>]
            ELSE executeOrder(E1, price, t, hit[1])

\* the order liquidateAllPositions issues for a position of its snapshot
PanicOrder(pos, reason, marketType) ==
    [action |-> IF marketType = "SPOT" THEN "SELL"
                ELSE IF pos.side = "LONG" THEN "CLOSE_LONG" ELSE "CLOSE_SHORT",
     amountPct |-> PctScale, symbol |-> pos.symbol, reason |-> reason,
     stopLoss |-> 0, takeProfit |-> 0, strategyUsed |-> "PANIC", trailingStopPct |-> 0,
     marketType |-> marketType, leverage |-> IF marketType = "SPOT" THEN 1 ELSE pos.leverage]

\* one loop of liquidateAllPositions over the orders of its snapshot: an executeOrder
\* per entry and count++ after each, whatever the call returned
RECURSIVE LiquidateEach(_, _, _, _, _)
LiquidateEach(E, price, t, orders, count) ==
    IF orders = <<>> THEN [e |-> E, count |-> count]
    ELSE LiquidateEach(executeOrder(E, price, t, Head(orders)).e, price, t,
                       Tail(orders), count + 1)

\* liquidateAllPositions(reason): the spot loop over a copy of spotPositions, then the
\* futures loop over a copy of futuresPositions taken when it starts
liquidateAllPositions(E, price, t, reason) ==
    LET spot == LiquidateEach(E, price, t,
                    [i \in DOMAIN E.portfolio.spotPositions |->
                        PanicOrder(E.portfolio.spotPositions[i], reason, "SPOT")], 0)
    IN LiquidateEach(spot.e, price, t,
            [i \in DOMAIN spot.e.portfolio.futuresPositions |->
                PanicOrder(spot.e.portfolio.futuresPositions[i], reason, "FUTURES")],
            spot.count)

\* ------------------------------------------------------ circuit breaker
IsLoss(trade) == OrZero(trade.pnl) < 0

HasPnl(trade) == trade.pnl # undefined

\* the trades the breaker inspects: the MAX_CONSECUTIVE_LOSSES newest trades with a pnl
RecentClosed(tradeHistory) ==
    LET closedTrades == SelectSeq(tradeHistory, HasPnl)
    IN SubSeq(closedTrades, 1, Min(Len(closedTrades), MAX_CONSECUTIVE_LOSSES))

\* allLosses without the length test before it: every() over fewer than three trades
AllLossesAnyCount(tradeHistory) ==
    \A i \in DOMAIN RecentClosed(tradeHistory) : IsLoss(RecentClosed(tradeHistory)[i])

AllLosses(tradeHistory) ==
    /\ Len(SelectSeq(tradeHistory, HasPnl)) >= MAX_CONSECUTIVE_LOSSES
    /\ \A i \in DOMAIN RecentClosed(tradeHistory) : IsLoss(RecentClosed(tradeHistory)[i])

\* checkCircuitBreaker(pf): pf is the object the caller passes, never the module's own
\* portfolio (getPortfolio and loadPortfolioState hand out copies).  Its tradeHistory is
\* the array the engine keeps unshifting into, so it is read from the engine here.
\* Result: the trigger time left on pf, the value returned, whether it saved.
checkCircuitBreaker(triggered, tradeHistory, t) ==
    IF Truthy(triggered)
    THEN IF t - triggered < COOL_DOWN_PERIOD_MS
         THEN [triggered |-> triggered, value |-> COOL_DOWN_PERIOD_MS - (t - triggered),
               saves |-> FALSE]
         ELSE [triggered |-> undefined, value |-> 0, saves |-> TRUE]
    ELSE IF AllLosses(tradeHistory)
         THEN [triggered |-> t, value |-> COOL_DOWN_PERIOD_MS, saves |-> TRUE]
         ELSE [triggered |-> triggered, value |-> 0, saves |-> FALSE]

\* ---------------------------------------------------------------- state
VARIABLES
    portfolio,          \* exchangeService: the module-level portfolio
    currentPrice,       \* exchangeService: the one module-level price
    lastSnapshotTime,   \* exchangeService
    db,                 \* the 'portfolio' object store: <<>> or <<saved portfolio>>
    nextId,             \* ids handed out so far
    tradingMode,        \* exchangeService: 'SIMULATION' or 'REAL_MONEY'
    now,                \* Date.now()
    portfolioProp,      \* the Portfolio copy the decision cycle is given as a prop
    ret,                \* the last call made and what it returned
    isCouncilProcessing,\* useAutoPilot: isCouncilProcessingRef.current
    lastCouncilCall,    \* useAutoPilot: lastCouncilCallRef.current
    currentPulse,       \* useAutoPilot: the currentPulse state
    activeSymbol,       \* the activeSymbol prop
    cycles,             \* the executeStrategyCycle invocations waiting on an await
    isRunning,          \* the isRunning prop: the autopilot is armed
    marketMap,          \* useMarketStream: symbol -> its candle history
    watchedSymbols,     \* useMarketStream: the symbols the stream is connected for
    initMarket,         \* useMarketStream: the await initMarket() is waiting on
    syncPending,        \* useMarketStream: the price-sync effect is due
    socketOpen          \* connectBinanceMultiStream: the WebSocket delivers ticks

cycleVars ==
    <<isCouncilProcessing, lastCouncilCall, currentPulse, activeSymbol, cycles, isRunning>>

streamVars == <<marketMap, watchedSymbols, initMarket, syncPending, socketOpen>>

vars == <<portfolio, currentPrice, lastSnapshotTime, db, nextId, tradingMode, now,
          portfolioProp, ret,
          isCouncilProcessing, lastCouncilCall, currentPulse, activeSymbol, cycles,
          isRunning, marketMap, watchedSymbols, initMarket, syncPending, socketOpen>>

Engine ==
    [portfolio |-> portfolio, lastSnapshotTime |-> lastSnapshotTime, db |-> db,
     nextId |-> nextId, tradingMode |-> tradingMode]

SetEngine(E) ==
    /\ portfolio' = E.portfolio
    /\ lastSnapshotTime' = E.lastSnapshotTime
    /\ db' = E.db
    /\ nextId' = E.nextId
    /\ tradingMode' = E.tradingMode

\* op: the call; trade: the Trade it returned (<<>> for null); value: the number it
\* returned; closed: the position a trigger scan's order closed, as the scan saw it
\* (a step of a decision cycle adds invoked: the Date.now() its invocation took at
\* line 95, when it went on to call the decision provider)
Returned(op, trade, value) ==
    [op |-> op, trade |-> trade, value |-> value, closed |-> <<>>]

\* the module as it is loaded at time t
FreshEngine(t) ==
    [portfolio |-> [balance |-> InitialBalance, equity |-> InitialBalance,
                    spotPositions |-> <<>>, futuresPositions |-> <<>>,
                    tradeHistory |-> <<>>, equityHistory |-> <<>>,
                    lastUpdated |-> t, circuitBreakerTriggered |-> undefined],
     lastSnapshotTime |-> 0, db |-> <<>>, nextId |-> 1, tradingMode |-> "SIMULATION"]

\* loadPortfolioState() in a newly loaded module: the saved portfolio, when there is
\* one, replaces the module's
loadPortfolioState(E, saved) ==
    IF saved = <<>> THEN savePortfolioState(E, E.portfolio.lastUpdated)
    ELSE [E EXCEPT !.portfolio = saved[1], !.db = saved]

\* an earlier session, at time TimeStep: a buy at 100 sold off at 60 in three halves
StreakOrder(action) ==
    CHOOSE o \in BreakerOrders : o.action = action

LosingStreak ==
    LET E0 == updateCurrentPrice(FreshEngine(TimeStep), 100, TimeStep)
        E1 == executeOrder(E0, 100, TimeStep, StreakOrder("BUY")).e
        E2 == updateCurrentPrice(E1, 60, TimeStep)
        E3 == executeOrder(E2, 60, TimeStep, StreakOrder("SELL")).e
        E4 == executeOrder(E3, 60, TimeStep, StreakOrder("SELL")).e
    IN executeOrder(E4, 60, TimeStep, StreakOrder("SELL")).e

\* a candle: its open time in seconds and its close
Ticker(time, close) == [time |-> time, close |-> close]

\* n closed one-minute candles up to the one that opened at CandleSeconds * n
History(n, close) == [i \in 1..n |-> Ticker(CandleSeconds * i, close)]

\* what getInitialData resolves to: the klines asked for, or [] when the fetch fails
InitialData == {<<>>, History(InitialKlines, 100)}

\* the market state once initMarket() has run to its end for every symbol
Bootstrapped ==
    [marketMap |-> [s \in Symbols |-> History(InitialKlines, 100)],
     watchedSymbols |-> Symbols, initMarket |-> "done", syncPending |-> TRUE,
     socketOpen |-> TRUE]

\* the market state of a page just mounted
Unmounted ==
    [marketMap |-> <<>>, watchedSymbols |-> {}, initMarket |-> "getTopVolatileAssets",
     syncPending |-> FALSE, socketOpen |-> FALSE]

\* the state a session starts in, E being the engine and M the market state
InitAt(E, M, t) ==
    /\ marketMap = M.marketMap
    /\ watchedSymbols = M.watchedSymbols
    /\ initMarket = M.initMarket
    /\ syncPending = M.syncPending
    /\ socketOpen = M.socketOpen
    /\ portfolio = E.portfolio
    /\ db = E.db
    /\ nextId = E.nextId
    /\ tradingMode = E.tradingMode
    /\ portfolioProp = [circuitBreakerTriggered |-> E.portfolio.circuitBreakerTriggered]
    /\ currentPrice = 0
    /\ lastSnapshotTime = 0
    /\ now = t
    /\ ret = Returned("init", <<>>, 0)
    /\ isCouncilProcessing = FALSE
    /\ lastCouncilCall = 0
    /\ currentPulse = MaxPulse
    /\ activeSymbol = "BTCUSDT"
    /\ cycles = <<>>
    /\ isRunning = FALSE

InitWith(E, M) == InitAt(E, M, StartTime)

\* a first session, the module just loaded
Init == InitWith(FreshEngine(StartTime), Unmounted)

\* a session that has loaded the portfolio an earlier one saved after a losing streak
InitResumed ==
    InitWith([loadPortfolioState(FreshEngine(StartTime), LosingStreak.db) EXCEPT
                !.nextId = LosingStreak.nextId], Bootstrapped)

\* the engine after n updateCurrentPrice(100) a little more than a snapshot interval
\* apart, the first one that long after the module was loaded: nothing is held, so
\* each leaves the equity at the balance and captures one equity point
Ticking(n) ==
    [FreshEngine(StartTime) EXCEPT
       !.portfolio.equityHistory =
          [i \in 1..n |-> [time |-> StartTime + i * (SnapshotIntervalMs + 1),
                            equity |-> InitialBalance, balance |-> InitialBalance]],
       !.lastSnapshotTime = IF n = 0 THEN 0 ELSE StartTime + n * (SnapshotIntervalMs + 1)]

\* when the long session below ends
SeasonedEnd == StartTime + (SeasonedPoints - 1) * (SnapshotIntervalMs + 1)

\* an earlier session that ran for hours: a price update a minute, each capturing an
\* equity point, and a buy at the end, which captures one more and saves the portfolio
LongSession ==
    executeOrder(Ticking(SeasonedPoints - 1), 100, SeasonedEnd, StreakOrder("BUY")).e

\* a session that has loaded the portfolio the long session saved
InitSeasoned ==
    InitAt([loadPortfolioState(FreshEngine(SeasonedEnd + TimeStep), LongSession.db) EXCEPT
              !.nextId = LongSession.nextId], Unmounted, SeasonedEnd + TimeStep)

\* Date.now() moves on
AdvanceClock ==
    /\ now < StartTime + TimeStep * MaxClock
    /\ now' = now + TimeStep
    /\ ret' = Returned("Date.now", <<>>, 0)
    /\ UNCHANGED <<portfolio, currentPrice, lastSnapshotTime, db, nextId, tradingMode,
                   portfolioProp>>
    /\ UNCHANGED <<cycleVars, streamVars>>

\* updateCurrentPrice(price), the price being one of the given ones
UpdateCurrentPriceFrom(prices) ==
    \E price \in prices :
        /\ currentPrice' = price
        /\ SetEngine(updateCurrentPrice(Engine, price, now))
        /\ ret' = Returned("updateCurrentPrice", <<>>, 0)
        /\ UNCHANGED <<now, portfolioProp>>
        /\ UNCHANGED <<cycleVars, streamVars>>

\* getPortfolio(): recompute and hand out a copy, which becomes the cycle's prop
GetPortfolio ==
    /\ portfolio' = calculateEquity(portfolio, currentPrice)
    /\ portfolioProp' = [circuitBreakerTriggered |-> portfolio.circuitBreakerTriggered]
    /\ ret' = Returned("getPortfolio", <<>>, 0)
    /\ UNCHANGED <<currentPrice, lastSnapshotTime, db, nextId, tradingMode, now>>
    /\ UNCHANGED <<cycleVars, streamVars>>

\* executeOrder called from outside the engine with one of the given orders
ExecuteOrderFrom(orders, maxTrades) ==
    /\ Len(portfolio.tradeHistory) < maxTrades
    /\ \E o \in orders :
        LET r == executeOrder(Engine, currentPrice, now, o)
        IN /\ SetEngine(r.e)
           /\ ret' = Returned("executeOrder", r.trade, 0)
           /\ UNCHANGED <<currentPrice, now, portfolioProp>>
           /\ UNCHANGED <<cycleVars, streamVars>>

\* the position executeOrder closes for a close trade: the first of its bucket on the symbol
ClosedBy(pf, trade) ==
    LET bucket == IF trade.marketType = "SPOT" THEN pf.spotPositions ELSE pf.futuresPositions
    IN <<bucket[FindIndex(bucket, trade.symbol)]>>

\* checkTradeTriggers()
CheckTradeTriggers ==
    LET r == checkTradeTriggers(Engine, currentPrice, now)
        seen == calculateEquity(portfolio, currentPrice)
    IN /\ SetEngine(r.e)
       /\ ret' = [Returned("checkTradeTriggers", r.trade, 0) EXCEPT
                    !.closed = IF r.trade = <<>> THEN <<>> ELSE ClosedBy(seen, r.trade[1])]
       /\ UNCHANGED <<currentPrice, now, portfolioProp>>
       /\ UNCHANGED <<cycleVars, streamVars>>

\* checkCircuitBreaker(portfolioProp)
CheckCircuitBreaker ==
    LET r == checkCircuitBreaker(portfolioProp.circuitBreakerTriggered,
                                 portfolio.tradeHistory, now)
        E1 == IF r.saves THEN savePortfolioState(Engine, now) ELSE Engine
    IN /\ portfolioProp' = [portfolioProp EXCEPT !.circuitBreakerTriggered = r.triggered]
       /\ SetEngine(E1)
       /\ ret' = Returned("checkCircuitBreaker", <<>>, r.value)
       /\ UNCHANGED <<currentPrice, now>>
       /\ UNCHANGED <<cycleVars, streamVars>>

\* ------------------------------------------------- useAutoPilot: the decision cycle
\* an invocation suspended at an await: where, and what its closure holds
Suspended(pc, forced, targetSymbol, scan, tickers, t) ==
    [pc |-> pc, forced |-> forced, targetSymbol |-> targetSymbol, scan |-> scan,
     tickers |-> tickers, now |-> t]

\* (marketMap[symbol] || []).length, counts being the lengths of the histories
TickerCount(counts, symbol) == IF symbol \in DOMAIN counts THEN counts[symbol] ELSE 0

\* the lengths of the histories in the marketMap a callback closes over
TickerCounts == [s \in DOMAIN marketMap |-> Len(marketMap[s])]

\* an invocation that ends without resetting isCouncilProcessingRef
CycleEndsLocked(i) ==
    /\ UNCHANGED isCouncilProcessing
    /\ cycles' = RemoveAt(cycles, i)

\* the finally block, and the invocation is over
CycleEnds(i) ==
    /\ isCouncilProcessing' = FALSE
    /\ cycles' = RemoveAt(cycles, i)

\* STEP 2 up to the await of getMarketContext
ToCouncil(i, targetSymbol) ==
    IF TickerCount(cycles[i].tickers, targetSymbol) < MinCouncilTickers
    THEN CycleEnds(i)
    ELSE /\ cycles' = [cycles EXCEPT ![i] = Suspended("getMarketContext", @.forced,
                                                      targetSymbol, @.scan, @.tickers, @.now)]
         /\ UNCHANGED isCouncilProcessing

\* executeStrategyCycle(forced) from the breaker test to its first await or return
CycleBegins(forced) ==
    /\ LET r == checkCircuitBreaker(portfolioProp.circuitBreakerTriggered,
                                    portfolio.tradeHistory, now)
           E1 == IF r.saves THEN savePortfolioState(Engine, now) ELSE Engine
           E2 == [E1 EXCEPT !.portfolio = calculateEquity(@, currentPrice)]
       IN /\ portfolioProp' = [portfolioProp EXCEPT !.circuitBreakerTriggered = r.triggered]
          /\ ret' = Returned("executeStrategyCycle", <<>>, r.value)
          /\ UNCHANGED <<currentPrice, now, lastCouncilCall, currentPulse, activeSymbol,
                         isRunning, streamVars>>
          /\ IF \/ r.value > 0 /\ ~forced
                \/ ~forced /\ now - lastCouncilCall < currentPulse
             THEN /\ SetEngine(E1)
                  /\ UNCHANGED <<isCouncilProcessing, cycles>>
             ELSE /\ SetEngine(E2)
                  /\ IF forced /\ TickerCount(TickerCounts, activeSymbol) < MinCouncilTickers
                     THEN UNCHANGED <<isCouncilProcessing, cycles>>
                     ELSE /\ isCouncilProcessing' = TRUE
                          /\ cycles' = Append(cycles,
                                Suspended(IF forced THEN "getMarketContext"
                                          ELSE "evaluateGlobalMarkets",
                                          forced, activeSymbol, <<>>, TickerCounts, now))

\* an entry that does not look at isCouncilProcessingRef
CycleStartUnlocked(forced) == CycleBegins(forced)

\* executeStrategyCycle(forced) from its entry to its first await or return: with no
\* symbol in the marketMap, or while another invocation holds isCouncilProcessingRef,
\* it returns at once
CycleStart(forced) ==
    IF DOMAIN marketMap = {} \/ isCouncilProcessing
    THEN /\ ret' = Returned("executeStrategyCycle", <<>>, 0)
         /\ UNCHANGED <<portfolio, currentPrice, lastSnapshotTime, db, nextId, tradingMode, now,
                        portfolioProp>>
         /\ UNCHANGED <<cycleVars, streamVars>>
    ELSE CycleBegins(forced)

\* after the scout (and the pause that follows a switch of symbol): the pulse is set
\* from the market condition, and a quiet market ends the cycle
AfterScout(i, targetSymbol, scan) ==
    /\ currentPulse' = IF scan.marketCondition = "BORING" THEN MaxPulse ELSE MinPulse
    /\ IF scan.marketCondition = "BORING" /\ ~scan.needsEscalation
       THEN /\ lastCouncilCall' = now
            /\ CycleEnds(i)
       ELSE /\ ToCouncil(i, targetSymbol)
            /\ UNCHANGED lastCouncilCall

\* evaluateGlobalMarkets resolves
ScoutReturns ==
    \E i \in DOMAIN cycles : \E scan \in ScanResults :
        /\ cycles[i].pc = "evaluateGlobalMarkets"
        /\ ret' = Returned("evaluateGlobalMarkets", <<>>, 0) @@ [invoked |-> cycles[i].now]
        /\ UNCHANGED <<portfolio, currentPrice, lastSnapshotTime, db, nextId, tradingMode, now,
                       portfolioProp, isRunning, marketMap, watchedSymbols, initMarket,
                       socketOpen>>
        /\ IF scan.selectedSymbol # cycles[i].targetSymbol
           THEN /\ activeSymbol' = scan.selectedSymbol
                /\ syncPending' = TRUE
                /\ cycles' = [cycles EXCEPT ![i] = Suspended("setTimeout", @.forced,
                                                             scan.selectedSymbol, <<scan>>,
                                                             @.tickers, @.now)]
                /\ UNCHANGED <<isCouncilProcessing, lastCouncilCall, currentPulse>>
           ELSE /\ AfterScout(i, cycles[i].targetSymbol, scan)
                /\ UNCHANGED <<activeSymbol, syncPending>>

\* the 500 ms pause after a switch of symbol is over
PauseEnds ==
    \E i \in DOMAIN cycles :
        /\ cycles[i].pc = "setTimeout"
        /\ ret' = Returned("setTimeout", <<>>, 0) @@ [invoked |-> cycles[i].now]
        /\ AfterScout(i, cycles[i].targetSymbol, cycles[i].scan[1])
        /\ UNCHANGED <<portfolio, currentPrice, lastSnapshotTime, db, nextId, tradingMode, now,
                       portfolioProp, activeSymbol, isRunning, streamVars>>

\* getMarketContext resolves (it catches its own failures)
ContextReturns ==
    \E i \in DOMAIN cycles :
        /\ cycles[i].pc = "getMarketContext"
        /\ ret' = Returned("getMarketContext", <<>>, 0)
        /\ cycles' = [cycles EXCEPT ![i] = Suspended("conveneCouncil", @.forced,
                                                     @.targetSymbol, @.scan, @.tickers, @.now)]
        /\ UNCHANGED <<portfolio, currentPrice, lastSnapshotTime, db, nextId, tradingMode, now,
                       portfolioProp, isCouncilProcessing, lastCouncilCall, currentPulse,
                       activeSymbol, isRunning, streamVars>>

\* the call of executeOrder a decision turns into
DecisionOrder(decision, targetSymbol) ==
    [action |-> decision.action,
     amountPct |-> IF Truthy(decision.suggestedAmountPct) THEN decision.suggestedAmountPct
                   ELSE 50,
     symbol |-> targetSymbol, reason |-> "Council", stopLoss |-> decision.stopLossPrice,
     takeProfit |-> decision.takeProfitPrice, strategyUsed |-> "Council",
     trailingStopPct |-> decision.trailingStopPct, marketType |-> decision.marketType,
     leverage |-> decision.leverage]

\* conveneCouncil resolves (ret.value: the confidence of the decision it resolved to):
\* the decision is executed unless it is HOLD, a trade is
\* followed by refreshPortfolio() (the prop becomes a new getPortfolio() copy), and
\* the cycle ends
CouncilReturnsFrom(decisions, maxTrades) ==
    \E i \in DOMAIN cycles : \E decision \in decisions :
        /\ cycles[i].pc = "conveneCouncil"
        /\ decision.action # "HOLD" => Len(portfolio.tradeHistory) < maxTrades
        /\ LET r == IF decision.action # "HOLD"
                    THEN executeOrder(Engine, currentPrice, now,
                                      DecisionOrder(decision, cycles[i].targetSymbol))
                    ELSE [e |-> Engine, trade |-> <<>>]
               E1 == IF r.trade # <<>>
                     THEN [r.e EXCEPT !.portfolio = calculateEquity(@, currentPrice)]
                     ELSE r.e
           IN /\ SetEngine(E1)
              /\ portfolioProp' =
                    IF r.trade # <<>>
                    THEN [circuitBreakerTriggered |-> E1.portfolio.circuitBreakerTriggered]
                    ELSE portfolioProp
              /\ ret' = Returned("conveneCouncil", r.trade, decision.confidence)
                         @@ [invoked |-> cycles[i].now]
        /\ lastCouncilCall' = now
        /\ CycleEnds(i)
        /\ UNCHANGED <<currentPrice, now, currentPulse, activeSymbol, isRunning, streamVars>>

\* a rejection that leaves executeStrategyCycle as an exception: no catch, no finally
ProviderFailsUncaught ==
    \E i \in DOMAIN cycles :
        /\ cycles[i].pc \in {"evaluateGlobalMarkets", "conveneCouncil"}
        /\ ret' = Returned("catch", <<>>, 0) @@ [invoked |-> cycles[i].now]
        /\ cycles' = RemoveAt(cycles, i)
        /\ UNCHANGED <<portfolio, currentPrice, lastSnapshotTime, db, nextId, tradingMode,
                       now, portfolioProp, isCouncilProcessing, lastCouncilCall,
                       currentPulse, activeSymbol, isRunning, streamVars>>

\* evaluateGlobalMarkets or conveneCouncil rejects: the catch logs, the finally unlocks
ProviderFails ==
    \E i \in DOMAIN cycles :
        /\ cycles[i].pc \in {"evaluateGlobalMarkets", "conveneCouncil"}
        /\ ret' = Returned("catch", <<>>, 0) @@ [invoked |-> cycles[i].now]
        /\ CycleEnds(i)
        /\ UNCHANGED <<portfolio, currentPrice, lastSnapshotTime, db, nextId, tradingMode, now,
                       portfolioProp, lastCouncilCall, currentPulse, activeSymbol,
                       isRunning, streamVars>>

UpdateCurrentPrice == UpdateCurrentPriceFrom(Prices)

ExecuteOrder == ExecuteOrderFrom(Orders, MaxTrades)

\* the engine driven by price updates, outside orders of every kind and trigger scans
Next ==
    \/ UpdateCurrentPrice
    \/ GetPortfolio
    \/ ExecuteOrder
    \/ CheckTradeTriggers

Spec == Init /\ [][Next]_vars

\* the same engine under opens that carry stops: what recomputes and scans do to them
NextRisk ==
    \/ UpdateCurrentPrice
    \/ GetPortfolio
    \/ ExecuteOrderFrom(RiskOrders, MaxRiskTrades)
    \/ CheckTradeTriggers

SpecRisk == Init /\ [][NextRisk]_vars

\* the same engine under futures orders on one symbol, three trades deep
NextHedge ==
    \/ UpdateCurrentPrice
    \/ GetPortfolio
    \/ ExecuteOrderFrom(HedgeOrders, MaxHedgeTrades)
    \/ CheckTradeTriggers

SpecHedge == Init /\ [][NextHedge]_vars

\* the prices between which a short opened at the lower one is liquidated
ScanPrices == {60, 140}

\* futures opens of either side on one symbol, price moves and trigger scans
NextScan ==
    \/ UpdateCurrentPriceFrom(ScanPrices)
    \/ ExecuteOrderFrom(ScanOrders, MaxScanTrades)
    \/ CheckTradeTriggers

\* prices, stacked futures orders on one symbol and trigger scans, in any order; how
\* often the scan runs is left to the property that is checked
SpecScan == Init /\ [][NextScan]_vars

UpdateBreakerPrice == UpdateCurrentPriceFrom(BreakerPrices)

ExecuteBreakerOrder == ExecuteOrderFrom(BreakerOrders, MaxBreakerTrades)

\* the engine with the clock running and the breaker checked on the handed-out copy
NextBreaker ==
    \/ AdvanceClock
    \/ UpdateBreakerPrice
    \/ GetPortfolio
    \/ ExecuteBreakerOrder
    \/ CheckCircuitBreaker

SpecBreaker == Init /\ [][NextBreaker]_vars

\* executeOrder called from outside the engine with one of the given orders, and seen
\* from there (ret.value: the amountPct passed, ret.closed: the position a close found,
\* as it was before the call)
ExecuteOrderSeen(orders, maxTrades) ==
    /\ Len(portfolio.tradeHistory) < maxTrades
    /\ \E o \in orders :
        LET r == executeOrder(Engine, currentPrice, now, o)
        IN /\ SetEngine(r.e)
           /\ ret' = [Returned("executeOrder", r.trade, o.amountPct) EXCEPT
                        !.closed = IF r.trade # <<>> /\ HasPnl(r.trade[1])
                                   THEN ClosedBy(portfolio, r.trade[1]) ELSE <<>>]
           /\ UNCHANGED <<currentPrice, now, portfolioProp>>
           /\ UNCHANGED <<cycleVars, streamVars>>

\* the engine under opens and closes whose remainders straddle the dust thresholds
NextDust ==
    \/ UpdateBreakerPrice
    \/ GetPortfolio
    \/ ExecuteOrderSeen(DustOrders, MaxDustTrades)

SpecDust == Init /\ [][NextDust]_vars

\* the engine under the orders and prices of the worked scenarios
NextWorked ==
    \/ UpdateCurrentPriceFrom(WorkedPrices)
    \/ GetPortfolio
    \/ ExecuteOrderSeen(WorkedOrders, MaxWorkedTrades)
    \/ CheckTradeTriggers

SpecWorked == Init /\ [][NextWorked]_vars

\* onToggle: the autopilot is armed or disarmed; the keep-alive worker is started or
\* stopped with it, and the stream effect, which depends on isRunning, closes its
\* socket and connects a new one for the watched symbols
Toggle ==
    /\ isRunning' = ~isRunning
    /\ socketOpen' = (watchedSymbols # {})
    /\ ret' = Returned("onToggle", <<>>, 0)
    /\ UNCHANGED <<portfolio, currentPrice, lastSnapshotTime, db, nextId, tradingMode, now,
                   portfolioProp,
                   isCouncilProcessing, lastCouncilCall, currentPulse, activeSymbol, cycles,
                   marketMap, watchedSymbols, initMarket, syncPending>>

\* handleTick(): a heartbeat of the worker, which runs while the autopilot is armed; the
\* coarse clock leaves successive heartbeats more than the 1000 ms throttle apart
HandleTick == isRunning /\ CycleStart(FALSE)

\* forceScan(): its button is there while the autopilot is armed
ForceScan == isRunning /\ CycleStart(TRUE)

CouncilReturns == CouncilReturnsFrom(Decisions, MaxCycleTrades)

\* the running engine: heartbeats and forced scans start decision cycles while prices
\* move, the clock runs and manual orders build a trade history
NextCycle ==
    \/ Toggle
    \/ AdvanceClock
    \/ UpdateBreakerPrice
    \/ HandleTick
    \/ ForceScan
    \/ ScoutReturns
    \/ PauseEnds
    \/ ContextReturns
    \/ CouncilReturns
    \/ ProviderFails

SpecCycle == InitResumed /\ [][NextCycle]_vars

\* a session whose market holds a full history for one symbol and none for the other
\* (its getInitialData failed)
InitLock ==
    InitWith(FreshEngine(StartTime),
             [Bootstrapped EXCEPT !.marketMap = [s \in Symbols |->
                                     IF s = "BTCUSDT" THEN History(InitialKlines, 100)
                                     ELSE <<>>]])

\* an awaited call of a suspended invocation settles: it resolves or it rejects
Settles ==
    \/ ProviderFails
    \/ ScoutReturns
    \/ PauseEnds
    \/ ContextReturns
    \/ CouncilReturnsFrom(Decisions, MaxLockTrades)

\* decision cycles alone: heartbeats and forced scans start them, and every call one
\* of them awaits settles sooner or later
NextLock ==
    \/ Toggle
    \/ UpdateBreakerPrice
    \/ HandleTick
    \/ ForceScan
    \/ ScoutReturns
    \/ PauseEnds
    \/ ContextReturns
    \/ CouncilReturnsFrom(Decisions, MaxLockTrades)
    \/ ProviderFails

SpecLock == InitLock /\ [][NextLock]_vars /\ WF_vars(Settles)

\* ------------------------------------------------- useMarketStream: the candle feed
\* initMarket(): getTopVolatileAssets resolves to one of the given lists (it falls back
\* to a fixed list when the fetch fails) and the stream effect connects a socket for the
\* symbols it named
InitMarketAssetsFrom(lists) ==
    \E topAssets \in lists :
        /\ initMarket = "getTopVolatileAssets"
        /\ initMarket' = "getInitialData"
        /\ watchedSymbols' = topAssets
        /\ socketOpen' = TRUE
        /\ ret' = Returned("getTopVolatileAssets", <<>>, 0)
        /\ UNCHANGED <<portfolio, currentPrice, lastSnapshotTime, db, nextId, tradingMode, now,
                       portfolioProp, marketMap, syncPending>>
        /\ UNCHANGED cycleVars

InitMarketAssets == InitMarketAssetsFrom((SUBSET Symbols) \ {{}})

\* initMarket(): every getInitialData has resolved and setMarketMap(initialDataMap)
\* replaces the map
InitMarketData ==
    \E initialDataMap \in [watchedSymbols -> InitialData] :
        /\ initMarket = "getInitialData"
        /\ initMarket' = "done"
        /\ marketMap' = initialDataMap
        /\ syncPending' = TRUE
        /\ ret' = Returned("getInitialData", <<>>, 0)
        /\ UNCHANGED <<portfolio, currentPrice, lastSnapshotTime, db, nextId, tradingMode, now,
                       portfolioProp, watchedSymbols, socketOpen>>
        /\ UNCHANGED cycleVars

\* an updater that appends every tick and keeps everything
PushTickerAppends(prevHistory, newTicker) == Append(prevHistory, newTicker)

\* the updater onTick hands to setMarketMap, for the history of the tick's symbol
PushTicker(prevHistory, newTicker) ==
    LET n == Len(prevHistory)
        updatedHistory == IF n > 0 /\ prevHistory[n].time = newTicker.time
                          THEN [prevHistory EXCEPT ![n] = newTicker]
                          ELSE Append(prevHistory, newTicker)
        m == Len(updatedHistory)
    IN IF m > MaxHistory THEN SubSeq(updatedHistory, m - MaxHistory + 1, m)
       ELSE updatedHistory

\* the open time of the candle in progress on a symbol, as far as the page has seen
LastTime(symbol) ==
    IF symbol \in DOMAIN marketMap /\ marketMap[symbol] # <<>>
    THEN marketMap[symbol][Len(marketMap[symbol])].time
    ELSE CandleSeconds * InitialKlines

\* the stream's onTick(symbol, newTicker) while the socket is open: the candle in
\* progress again, or the next one, closing at one of the given prices and no later than
\* maxNew candles after the bootstrap; the history is updated, and while the autopilot
\* is armed the triggers are scanned, at the price the module holds (ret.value: the
\* tick's close)
OnTickFrom(closes, maxNew) ==
    \E symbol \in watchedSymbols : \E close \in closes : \E next \in BOOLEAN :
        LET time == IF next THEN LastTime(symbol) + CandleSeconds ELSE LastTime(symbol)
            prevHistory == IF symbol \in DOMAIN marketMap THEN marketMap[symbol] ELSE <<>>
            r == IF isRunning THEN checkTradeTriggers(Engine, currentPrice, now)
                 ELSE [e |-> Engine, trade |-> <<>>]
        IN /\ socketOpen
           /\ time <= CandleSeconds * (InitialKlines + maxNew)
           /\ marketMap' = [s \in DOMAIN marketMap \cup {symbol} |->
                               IF s = symbol THEN PushTicker(prevHistory, Ticker(time, close))
                               ELSE marketMap[s]]
           /\ syncPending' = TRUE
           /\ SetEngine(r.e)
           /\ ret' = [op |-> "onTick", trade |-> r.trade, value |-> close, closed |-> <<>>,
                      symbol |-> symbol]
           /\ UNCHANGED <<currentPrice, now, portfolioProp, watchedSymbols, initMarket,
                          socketOpen>>
           /\ UNCHANGED cycleVars

OnTick == OnTickFrom(BreakerPrices, MaxNewCandles)

\* the socket's onerror: the failure is reported through onError and the socket is
\* closed; nothing connects another before the stream effect runs again
StreamFails ==
    /\ socketOpen
    /\ socketOpen' = FALSE
    /\ ret' = Returned("onError", <<>>, 0)
    /\ UNCHANGED <<portfolio, currentPrice, lastSnapshotTime, db, nextId, tradingMode, now,
                   portfolioProp,
                   marketMap, watchedSymbols, initMarket, syncPending>>
    /\ UNCHANGED cycleVars

\* the effect on [marketMap, activeSymbol], run after the render that follows a change
\* of either: the module's price becomes the last close of the active symbol
PriceSync ==
    /\ syncPending
    /\ syncPending' = FALSE
    /\ IF activeSymbol \in DOMAIN marketMap /\ marketMap[activeSymbol] # <<>>
       THEN LET lastTick == marketMap[activeSymbol][Len(marketMap[activeSymbol])]
            IN /\ currentPrice' = lastTick.close
               /\ SetEngine(updateCurrentPrice(Engine, lastTick.close, now))
       ELSE UNCHANGED <<portfolio, currentPrice, lastSnapshotTime, db, nextId, tradingMode>>
    /\ ret' = Returned("useEffect", <<>>, 0)
    /\ UNCHANGED <<now, portfolioProp, marketMap, watchedSymbols, initMarket, socketOpen>>
    /\ UNCHANGED cycleVars

\* the page from its mount: the feed is bootstrapped and streams candles, the price
\* follows the active symbol, orders open positions with stops, and the autopilot is
\* armed and disarmed
NextStream ==
    \/ Toggle
    \/ InitMarketAssets
    \/ InitMarketData
    \/ OnTick
    \/ PriceSync
    \/ ExecuteOrderFrom(StreamOrders, MaxStreamTrades)

SpecStream == Init /\ [][NextStream]_vars

\* the candles of a history that close away from 100
OffCloses(history) == Len(SelectSeq(history, LAMBDA tk : tk.close # 100))

\* a tick of a quiet market: few candles close away from 100
OnFeedTick ==
    /\ OnTickFrom(BreakerPrices, MaxFeedCandles)
    /\ \A s \in DOMAIN marketMap' : OffCloses(marketMap'[s]) <= MaxOffCloses

\* the feed of one symbol from the mount of the page, long enough for the history to
\* outgrow its cap, with stream failures and reconnections
NextFeed ==
    \/ Toggle
    \/ InitMarketAssetsFrom({{"BTCUSDT"}})
    \/ InitMarketData
    \/ OnFeedTick
    \/ StreamFails

SpecFeed == Init /\ [][NextFeed]_vars

\* liquidateAllPositions(reason); value is the count it returned
LiquidateAllPositions ==
    LET r == liquidateAllPositions(Engine, currentPrice, now, "Panic")
    IN /\ SetEngine(r.e)
       /\ ret' = Returned("liquidateAllPositions", <<>>, r.count)
       /\ UNCHANGED <<currentPrice, now, portfolioProp>>
       /\ UNCHANGED <<cycleVars, streamVars>>

\* savePortfolioState() called on its own
SavePortfolioState ==
    /\ SetEngine(savePortfolioState(Engine, now))
    /\ ret' = Returned("savePortfolioState", <<>>, 0)
    /\ UNCHANGED <<currentPrice, now, portfolioProp>>
    /\ UNCHANGED <<cycleVars, streamVars>>

\* the page is loaded anew: the module starts over (lines 6-22) with the store as the
\* last session left it, and loadPortfolioState() runs
LoadPortfolioState ==
    LET E == loadPortfolioState([FreshEngine(now) EXCEPT !.nextId = nextId], db)
    IN /\ Len(portfolio.equityHistory) < MaxSessionPoints
       /\ SetEngine(E)
       /\ currentPrice' = 0
       /\ portfolioProp' = [circuitBreakerTriggered |-> E.portfolio.circuitBreakerTriggered]
       /\ ret' = Returned("loadPortfolioState", <<>>, 0)
       /\ isCouncilProcessing' = FALSE
       /\ lastCouncilCall' = 0
       /\ currentPulse' = MaxPulse
       /\ activeSymbol' = "BTCUSDT"
       /\ cycles' = <<>>
       /\ isRunning' = FALSE
       /\ marketMap' = Unmounted.marketMap
       /\ watchedSymbols' = Unmounted.watchedSymbols
       /\ initMarket' = Unmounted.initMarket
       /\ syncPending' = Unmounted.syncPending
       /\ socketOpen' = Unmounted.socketOpen
       /\ UNCHANGED now

\* sessions of the engine: opens, a liquidation of everything, saves and page loads
NextSession ==
    \/ UpdateBreakerPrice
    \/ ExecuteOrderSeen(SessionOrders, MaxSessionTrades)
    \/ LiquidateAllPositions
    \/ SavePortfolioState
    \/ LoadPortfolioState

SpecSession == Init /\ [][NextSession]_vars

\* setTradingMode(mode), as the configuration panel calls it; the user settings hold
\* no Binance key, so binanceKey stays '' and syncRealBalance is not started
SetTradingMode ==
    \E mode \in {"SIMULATION", "REAL_MONEY"} :
        /\ tradingMode' = mode
        /\ ret' = Returned("setTradingMode", <<>>, 0)
        /\ UNCHANGED <<portfolio, currentPrice, lastSnapshotTime, db, nextId, now,
                       portfolioProp>>
        /\ UNCHANGED <<cycleVars, streamVars>>

\* executeOrder called with one of the live orders; ret keeps the order
ExecuteLiveOrder ==
    /\ Len(portfolio.tradeHistory) < MaxLiveTrades
    /\ \E o \in LiveOrders :
        LET r == executeOrder(Engine, currentPrice, now, o)
        IN /\ SetEngine(r.e)
           /\ ret' = [op |-> "executeOrder", trade |-> r.trade, value |-> o.amountPct,
                      closed |-> <<>>, order |-> o]
           /\ UNCHANGED <<currentPrice, now, portfolioProp>>
           /\ UNCHANGED <<cycleVars, streamVars>>

\* the engine switched between simulation and real money, spot orders on one symbol
NextLive ==
    \/ SetTradingMode
    \/ UpdateBreakerPrice
    \/ GetPortfolio
    \/ ExecuteLiveOrder

SpecLive == Init /\ [][NextLive]_vars

\* the engine late in its life: every price update after a pause and every trade
\* captures an equity point, and the history is about to reach its cap
NextEquity ==
    \/ UpdateBreakerPrice
    \/ GetPortfolio
    \/ ExecuteOrderSeen(BreakerOrders, MaxEquityTrades)

SpecEquity == InitSeasoned /\ [][NextEquity]_vars

\* the engine under opens and closes of any fraction, at prices that divide evenly
NextFunds ==
    \/ UpdateCurrentPriceFrom(FundsPrices)
    \/ ExecuteOrderSeen(FundsOrders, MaxFundsTrades)

SpecFunds == Init /\ [][NextFunds]_vars

\* ------------------------------------------- the engine's calls, await by await
\* awaits of the engine that would all wait for tasks of their own
NoSettledAwaits == {}

\* The awaits of the engine that wait for a call of executeOrder which has already run
\* to its end (line 344 in a flip, lines 482 and 488 in liquidateAllPositions): the
\* promise is settled, so the caller is resumed by a microtask, before the event loop
\* takes another task (a tick, a click, a timer, a network reply).
SettledAwaits == {"executeOrder", "liquidateAllPositions"}

\* no invocation is waiting to be resumed by a microtask: the event loop takes a task
Idle == \A i \in DOMAIN cycles : cycles[i].pc \notin SettledAwaits

\* executeOrder, line 342: the order opens a futures position against one of the
\* other side
Flips(E, price, o) ==
    LET idx == FindIndex(E.portfolio.futuresPositions, o.symbol)
    IN /\ o.amountPct > 0
       /\ price # 0
       /\ o.marketType = "FUTURES"
       /\ o.action \in {"OPEN_LONG", "OPEN_SHORT"}
       /\ idx # 0
       /\ E.portfolio.futuresPositions[idx].side
             # (IF o.action = "OPEN_LONG" THEN "LONG" ELSE "SHORT")

\* executeOrder called from outside, up to its first await or its return: a flip runs
\* the close and waits at line 344, anything else runs to its end
ExecuteOrderBegins(orders, maxTrades) ==
    /\ Len(portfolio.tradeHistory) < maxTrades
    /\ \E o \in orders :
        IF Flips(Engine, currentPrice, o)
        THEN LET r == executeOrder(Engine, currentPrice, now, FlipOrder(o))
             IN /\ SetEngine(r.e)
                /\ ret' = Returned("executeOrder", r.trade, o.amountPct)
                /\ cycles' = Append(cycles, [pc |-> "executeOrder", order |-> o,
                                             timestamp |-> now])
        ELSE LET r == executeOrder(Engine, currentPrice, now, o)
             IN /\ SetEngine(r.e)
                /\ ret' = Returned("executeOrder", r.trade, o.amountPct)
                /\ UNCHANGED cycles
    /\ UNCHANGED <<currentPrice, now, portfolioProp, isCouncilProcessing, lastCouncilCall,
                   currentPulse, activeSymbol, isRunning, streamVars>>

\* liquidateAllPositions from where it stands (loop: the bucket it is in, orders: what is
\* left of the copy it iterates, count) to its next await or its return
LiquidationGoesOn(E, st) ==
    IF st.orders # <<>>
    THEN [e |-> executeOrder(E, currentPrice, now, Head(st.orders)).e, done |-> FALSE,
          st |-> [st EXCEPT !.orders = Tail(@)]]
    ELSE IF st.loop = "SPOT"
    THEN LET snapshot == [i \in DOMAIN E.portfolio.futuresPositions |->
                            PanicOrder(E.portfolio.futuresPositions[i], "Panic", "FUTURES")]
         IN IF snapshot = <<>> THEN [e |-> E, done |-> TRUE, st |-> st]
            ELSE [e |-> executeOrder(E, currentPrice, now, Head(snapshot)).e,
                  done |-> FALSE,
                  st |-> [st EXCEPT !.loop = "FUTURES", !.orders = Tail(snapshot)]]
    ELSE [e |-> E, done |-> TRUE, st |-> st]

\* liquidateAllPositions('Panic') up to its first await or its return
LiquidationBegins ==
    LET r == LiquidationGoesOn(Engine,
                [pc |-> "liquidateAllPositions", loop |-> "SPOT", count |-> 0,
                 orders |-> [i \in DOMAIN portfolio.spotPositions |->
                                PanicOrder(portfolio.spotPositions[i], "Panic", "SPOT")]])
    IN /\ SetEngine(r.e)
       /\ IF r.done
          THEN /\ ret' = Returned("liquidateAllPositions", <<>>, r.st.count)
               /\ UNCHANGED cycles
          ELSE /\ ret' = Returned("executeOrder", <<>>, 0)
               /\ cycles' = Append(cycles, r.st)
       /\ UNCHANGED <<currentPrice, now, portfolioProp, isCouncilProcessing, lastCouncilCall,
                      currentPulse, activeSymbol, isRunning, streamVars>>

\* an invocation waiting at one of the given awaits is resumed: a flip opens its
\* position (lines 347-391, at the price the module holds by now), a liquidation
\* counts the call it waited for and goes on
Resumes(awaits) ==
    \E i \in DOMAIN cycles :
        /\ cycles[i].pc \in awaits
        /\ IF cycles[i].pc = "executeOrder"
           THEN LET r == FuturesOpen(Engine, currentPrice, cycles[i].timestamp,
                                     cycles[i].order)
                IN /\ SetEngine(r.e)
                   /\ ret' = Returned("resume", r.trade, 0)
                   /\ cycles' = RemoveAt(cycles, i)
           ELSE LET r == LiquidationGoesOn(Engine, [cycles[i] EXCEPT !.count = @ + 1])
                IN /\ SetEngine(r.e)
                   /\ ret' = Returned("resume", <<>>, r.st.count)
                   /\ cycles' = IF r.done THEN RemoveAt(cycles, i)
                                ELSE [cycles EXCEPT ![i] = r.st]
        /\ UNCHANGED <<currentPrice, now, portfolioProp, isCouncilProcessing,
                       lastCouncilCall, currentPulse, activeSymbol, isRunning, streamVars>>

ExecuteLoopOrder == Idle /\ ExecuteOrderBegins(LoopOrders, MaxLoopTrades)

PanicClicked == Idle /\ LiquidationBegins

LoopToggle == Idle /\ Toggle

LoopTick == Idle /\ OnTick

LoopPriceSync == Idle /\ PriceSync

\* a session whose market, of one symbol, is bootstrapped
InitLoop ==
    InitWith(FreshEngine(StartTime),
             [Bootstrapped EXCEPT !.watchedSymbols = {"BTCUSDT"},
                                  !.marketMap = [s \in {"BTCUSDT"} |-> @[s]]])

\* the event loop of the page: ticks, price syncs, orders that may flip a position
\* and liquidations are tasks, taken one at a time once the microtasks have run
NextLoop ==
    \/ LoopToggle
    \/ LoopTick
    \/ LoopPriceSync
    \/ ExecuteLoopOrder
    \/ PanicClicked
    \/ Resumes(SettledAwaits)

SpecLoop == InitLoop /\ [][NextLoop]_vars

\* ================================================================ claims

AllPositions == portfolio.spotPositions \o portfolio.futuresPositions

\* C1: immediately after every recompute (updateCurrentPrice, getPortfolio) and every
\* executeOrder call (from outside or from a trigger scan) the stored equity equals
\* balance plus the sum of unrealizedPnL over all spot and futures positions.
C1_EquityIdentity ==
    ret.op \in {"updateCurrentPrice", "getPortfolio", "executeOrder", "checkTradeTriggers"}
        => portfolio.equity = portfolio.balance + SumUnrealized(AllPositions)

\* C2: no symbol has both a LONG and a SHORT position in futuresPositions.
C2_NoLongAndShort ==
    \A i, j \in DOMAIN portfolio.futuresPositions :
        portfolio.futuresPositions[i].symbol = portfolio.futuresPositions[j].symbol
            => portfolio.futuresPositions[i].side = portfolio.futuresPositions[j].side

\* C5: every spot position has leverage exactly 1 and every futures position has
\* 1 <= leverage <= 3, whatever leverage was passed to executeOrder.
C5_LeverageBounds ==
    /\ \A i \in DOMAIN portfolio.spotPositions : portfolio.spotPositions[i].leverage = 1
    /\ \A i \in DOMAIN portfolio.futuresPositions :
            /\ portfolio.futuresPositions[i].leverage >= 1
            /\ portfolio.futuresPositions[i].leverage <= 3

\* C6: an executeOrder call that returns null leaves balance, spotPositions,
\* futuresPositions and tradeHistory exactly as they were before the call.
C6_RejectionIsNoOp ==
    [][(ret'.op = "executeOrder" /\ ret'.trade = <<>>)
        => /\ portfolio'.balance = portfolio.balance
           /\ portfolio'.spotPositions = portfolio.spotPositions
           /\ portfolio'.futuresPositions = portfolio.futuresPositions
           /\ portfolio'.tradeHistory = portfolio.tradeHistory]_vars

\* the trades a step put on the front of tradeHistory
NewTrades == SubSeq(portfolio'.tradeHistory, 1,
                    Len(portfolio'.tradeHistory) - Len(portfolio.tradeHistory))

\* C7: an executeOrder call that flips (closes the opposite side with the reason
\* "Flip Position") records exactly two trades, the close of the old position first and
\* the open of the new position second (newest first in tradeHistory), and afterwards
\* the symbol holds no position of the old side.
C7_FlipOrdering ==
    [][(/\ ret'.op = "executeOrder"
        /\ \E k \in DOMAIN NewTrades : NewTrades[k].reason = "Flip Position")
        => /\ Len(NewTrades) = 2
           /\ NewTrades[2].reason = "Flip Position" /\ HasPnl(NewTrades[2])
           /\ ~HasPnl(NewTrades[1]) /\ NewTrades[1].symbol = NewTrades[2].symbol
           /\ NewTrades[1].side = NewTrades[2].side
           /\ \A i \in DOMAIN portfolio'.futuresPositions :
                 portfolio'.futuresPositions[i].symbol = NewTrades[1].symbol
                    => portfolio'.futuresPositions[i].side =
                         (IF NewTrades[1].side = "BUY" THEN "LONG" ELSE "SHORT")]_vars


AllFourBreached(pos, price) ==
    /\ LiquidationHit(pos, price)
    /\ StopLossHit(pos, price)
    /\ TakeProfitHit(pos, price)
    /\ TrailingHit(pos, price)

\* C3 as claimed: whenever a trigger scan runs while some futures position has its
\* liquidationPrice, stopLoss, takeProfit and trailingStopTrigger all breached at the
\* current price, the close trade the scan emits carries the reason "LIQUIDATION".
C3_ScanEmitsLiquidation ==
    [][(/\ ret'.op = "checkTradeTriggers"
        /\ ret'.trade # <<>>
        /\ \E i \in DOMAIN portfolio.futuresPositions :
              AllFourBreached(calculateEquity(portfolio, currentPrice).futuresPositions[i],
                              currentPrice))
        => ret'.trade[1].reason = "LIQUIDATION"]_vars

\* C3 amended: whenever a trigger scan closes a futures position whose liquidationPrice
\* is breached at the current price (whatever else is breached: stopLoss, takeProfit
\* and trailingStopTrigger too), the close trade carries the reason "LIQUIDATION".
C3_ClosedPositionLiquidationFirst ==
    (/\ ret.op = "checkTradeTriggers"
     /\ ret.trade # <<>>
     /\ ret.trade[1].marketType = "FUTURES"
     /\ LiquidationHit(ret.closed[1], currentPrice))
        => ret.trade[1].reason = "LIQUIDATION"

C3_Witness ==
    /\ ret.op = "checkTradeTriggers"
    /\ ret.trade # <<>>
    /\ ret.trade[1].marketType = "FUTURES"
    /\ AllFourBreached(ret.closed[1], currentPrice)
    /\ ret.trade[1].reason = "LIQUIDATION"

\* C4: in every step (every recompute included, whatever price is fed) a LONG position
\* that has a trailingStopTrigger keeps it or raises it, and a SHORT position keeps it
\* or lowers it.
C4_TrailingRatchet ==
    [][\A i \in DOMAIN AllPositions : \A j \in DOMAIN AllPositions' :
          (/\ AllPositions[i].id = AllPositions'[j].id
           /\ AllPositions[i].trailingStopTrigger # undefined)
            => IF AllPositions[i].side = "LONG"
               THEN AllPositions'[j].trailingStopTrigger >= AllPositions[i].trailingStopTrigger
               ELSE /\ AllPositions'[j].trailingStopTrigger # undefined
                    /\ AllPositions'[j].trailingStopTrigger
                          <= AllPositions[i].trailingStopTrigger]_vars

\* a LONG whose trigger was ratcheted up from its seed and which was then recomputed
\* at a price below its high-water mark
C4_Witness ==
    /\ ret.op \in {"updateCurrentPrice", "getPortfolio"}
    /\ \E i \in DOMAIN portfolio.futuresPositions :
          LET pos == portfolio.futuresPositions[i]
          IN /\ pos.side = "LONG"
             /\ Truthy(pos.trailingStopPct)
             /\ pos.highestPriceSinceEntry > pos.entryPrice
             /\ pos.currentPrice = currentPrice
             /\ currentPrice < pos.highestPriceSinceEntry
             /\ pos.trailingStopTrigger
                   = (pos.highestPriceSinceEntry * (100 - pos.trailingStopPct)) \div 100
             /\ pos.trailingStopTrigger
                   > (pos.entryPrice * (100 - pos.trailingStopPct)) \div 100

\* the realized pnl of the closed trades, newest first
RECURSIVE RealizedPnls(_)
RealizedPnls(history) ==
    IF history = <<>> THEN <<>>
    ELSE IF Head(history).pnl = undefined THEN RealizedPnls(Tail(history))
    ELSE <<Head(history).pnl>> \o RealizedPnls(Tail(history))

ThreeNewestAreLosses ==
    LET pnls == RealizedPnls(portfolio.tradeHistory)
    IN Len(pnls) >= 3 /\ pnls[1] < 0 /\ pnls[2] < 0 /\ pnls[3] < 0

\* C8: a checkCircuitBreaker call on a portfolio with no trigger time recorded activates
\* the breaker (records the call's time on it) and returns the full cool-down if and
\* only if there are at least 3 closed trades and the 3 newest trades that carry a pnl
\* all have pnl < 0; in every other case it returns exactly 0 and does not activate.
C8_ActivationRule ==
    [][(ret'.op = "checkCircuitBreaker" /\ ~Truthy(portfolioProp.circuitBreakerTriggered))
        => IF ThreeNewestAreLosses
           THEN /\ ret'.value = COOL_DOWN_PERIOD_MS
                /\ portfolioProp'.circuitBreakerTriggered = now
           ELSE /\ ret'.value = 0
                /\ ~Truthy(portfolioProp'.circuitBreakerTriggered)]_vars

\* the breaker has just been activated on three losses that follow a closed trade
\* which was not a loss
C8_Witness ==
    /\ ret.op = "checkCircuitBreaker"
    /\ ret.value = COOL_DOWN_PERIOD_MS
    /\ portfolioProp.circuitBreakerTriggered = now
    /\ ThreeNewestAreLosses

\* C10: once checkCircuitBreaker has activated the breaker, the trigger time is part of
\* the engine's portfolio and of the saved portfolio.
C10_BreakerRecorded ==
    (ret.op = "checkCircuitBreaker" /\ ret.value = COOL_DOWN_PERIOD_MS)
        => /\ portfolio.circuitBreakerTriggered = portfolioProp.circuitBreakerTriggered
           /\ db # <<>>
           /\ db[1].circuitBreakerTriggered = portfolioProp.circuitBreakerTriggered

\* a cool-down is recorded on the portfolio the decision cycle checks and has not elapsed
CoolDownActive ==
    /\ Truthy(portfolioProp.circuitBreakerTriggered)
    /\ now - portfolioProp.circuitBreakerTriggered < COOL_DOWN_PERIOD_MS

\* C9: while a cool-down is active and has not elapsed, no decision cycle, forced or
\* not, executes an opening order: a step in which the council's decision records an
\* opening trade is never taken during the cool-down.
C9_NoOpeningDuringCoolDown ==
    [][(/\ ret'.op = "conveneCouncil"
        /\ Len(portfolio'.tradeHistory) > Len(portfolio.tradeHistory)
        /\ ~HasPnl(Head(portfolio'.tradeHistory)))
        => ~CoolDownActive]_vars

\* C11: a decision with an opening action (BUY, OPEN_LONG, OPEN_SHORT) reaches
\* executeOrder only if its confidence meets the configured threshold: whatever positive
\* threshold is configured, no opening trade is recorded for a decision of confidence 0.
C11_ConfidenceGate ==
    [][(/\ ret'.op = "conveneCouncil"
        /\ Len(portfolio'.tradeHistory) > Len(portfolio.tradeHistory)
        /\ ~HasPnl(Head(portfolio'.tradeHistory)))
        => ret'.value > 0]_vars

\* C12: a decision cycle that is in flight when the autopilot is disarmed never calls
\* executeOrder afterwards: cycles start only while it is armed, so no step in which
\* the council's decision records a trade is taken while it is disarmed.
C12_NoOrderAfterDisarm ==
    [][(/\ ret'.op = "conveneCouncil"
        /\ Len(portfolio'.tradeHistory) > Len(portfolio.tradeHistory))
        => isRunning]_vars

\* C13: at most one decision cycle is in flight at any time, and a heartbeat or a forced
\* scan that arrives while isCouncilProcessingRef is set returns without starting a
\* cycle and without touching the portfolio.
C13_MutualExclusion ==
    [][/\ Len(cycles') <= 1
       /\ (ret'.op = "executeStrategyCycle" /\ isCouncilProcessing)
            => (cycles' = cycles /\ portfolio' = portfolio /\ db' = db)]_vars

\* a start arrived and returned while a cycle was awaiting the council
C13_Witness ==
    /\ ret.op = "executeStrategyCycle"
    /\ Len(cycles) = 1
    /\ cycles[1].pc = "conveneCouncil"

\* C14: every tick is one unit of work, armed or not: the feed is updated, the ledger is
\* recomputed at the tick's close and the triggers are scanned, in that order; so a tick
\* leaves the portfolio a recompute at its close followed by a scan leaves, and a trade
\* the scan returns is made at the tick's close.
C14_TickUnitOfWork ==
    [][ret'.op = "onTick"
        => LET E1 == updateCurrentPrice(Engine, ret'.value, now)
           IN /\ portfolio' = checkTradeTriggers(E1, ret'.value, now).e.portfolio
              /\ ret'.trade # <<>> => ret'.trade[1].price = ret'.value]_vars

\* the positions of a portfolio that are not on the given symbol
PositionsOff(pf, symbol) ==
    SelectSeq(pf.spotPositions \o pf.futuresPositions, LAMBDA pos : pos.symbol # symbol)

\* C15: a recompute is per symbol: the recompute for a tick of symbol S (the price-sync
\* effect, S being the active symbol) leaves every position on another symbol as it was.
C15_RecomputePerSymbol ==
    [][ret'.op = "useEffect"
        => PositionsOff(portfolio', activeSymbol) = PositionsOff(portfolio, activeSymbol)]_vars

\* C16: a close of all of a position, and a partial close that leaves less than the dust
\* threshold of its bucket at the price of the close, remove the position from its
\* bucket; and no position with amount <= 0 is ever in a bucket.
C16_DustCleanup ==
    [][/\ \A i \in DOMAIN AllPositions' : AllPositions'[i].amount > 0
       /\ \A k \in DOMAIN NewTrades :
             HasPnl(NewTrades[k]) =>
                LET trade == NewTrades[k]
                    pos == ClosedBy(portfolio, trade)[1]
                    dust == IF trade.marketType = "SPOT" THEN SpotDust ELSE FuturesDust
                IN (\/ trade.amount = pos.amount
                    \/ Value(pos.amount - trade.amount, trade.price) < dust)
                      => \A j \in DOMAIN AllPositions' : AllPositions'[j].id # pos.id]_vars

\* a partial close has just left less than the dust and the position is gone
C16_Witness ==
    /\ ret.op = "executeOrder"
    /\ ret.closed # <<>>
    /\ ret.value < PctScale
    /\ ret.trade[1].amount < ret.closed[1].amount
    /\ \A j \in DOMAIN AllPositions : AllPositions[j].id # ret.closed[1].id

\* the portfolio holds one spot position, bought at 100 for 5000 out of the initial
\* 10000, and the newest trade but n is that buy
BoughtHalfAt100(n) ==
    LET h == portfolio.tradeHistory
    IN /\ Len(h) = n + 1
       /\ h[n + 1].side = "BUY" /\ h[n + 1].marketType = "SPOT"
       /\ h[n + 1].price = 100 /\ h[n + 1].cost = 5000

\* C17: from cash 10000 and no positions, a spot buy of 50% at 100 spends 5000 for 50
\* coins at entry 100; after a recompute at 120 the unrealized PnL is 1000 and the
\* equity 11000; a sell of 100% at 120 realizes 1000, leaves cash 11000, removes the
\* position and leaves equity 11000.
C17_SpotScenario ==
    /\ (ret.op = "executeOrder" /\ ret.value = 50 /\ Len(portfolio.tradeHistory) = 1
            /\ ret.trade # <<>> /\ ret.trade[1].side = "BUY"
            /\ ret.trade[1].marketType = "SPOT" /\ ret.trade[1].price = 100)
          => /\ ret.trade[1].cost = 5000
             /\ portfolio.balance = 5000
             /\ Len(portfolio.spotPositions) = 1
             /\ portfolio.spotPositions[1].amount = 50 * AmountScale
             /\ portfolio.spotPositions[1].entryPrice = 100
    /\ (BoughtHalfAt100(0) /\ ret.op \in {"updateCurrentPrice", "getPortfolio"}
            /\ currentPrice = 120)
          => /\ portfolio.spotPositions[1].unrealizedPnL = 1000
             /\ portfolio.equity = 11000
    /\ (BoughtHalfAt100(1) /\ ret.op = "executeOrder" /\ ret.value = PctScale
            /\ ret.trade # <<>> /\ ret.trade[1].side = "SELL"
            /\ ret.trade[1].marketType = "SPOT" /\ ret.trade[1].price = 120)
          => /\ ret.trade[1].pnl = 1000
             /\ portfolio.balance = 11000
             /\ portfolio.spotPositions = <<>>
             /\ portfolio.equity = 11000

AppendOnly ==
    LET old == portfolio.tradeHistory
        new == portfolio'.tradeHistory
    IN /\ Len(new) >= Len(old)
       /\ SubSeq(new, Len(new) - Len(old) + 1, Len(new)) = old

\* C19 as stated: every executeOrder call that returns a trade has appended exactly one
\* new Trade, newest first, carrying the reason passed in, and tradeHistory is
\* append-only under every step.
C19_ExactlyOneTrade ==
    [][/\ AppendOnly
       /\ (ret'.op = "executeOrder" /\ ret'.trade # <<>>)
            => /\ Len(NewTrades) = 1
               /\ NewTrades[1] = ret'.trade[1]
               /\ NewTrades[1].reason = "Manual"]_vars

\* C19, amended: every executeOrder call that returns a trade has put that trade,
\* carrying the reason passed in, on the front of tradeHistory, and has added nothing
\* else, except that an open that flips has first recorded the close of the opposite
\* position with the reason "Flip Position"; and tradeHistory is append-only under
\* every step.
C19_TradeRecording ==
    [][/\ AppendOnly
       /\ (ret'.op = "executeOrder" /\ ret'.trade # <<>>)
            => /\ Len(NewTrades) \in {1, 2}
               /\ NewTrades[1] = ret'.trade[1]
               /\ NewTrades[1].reason = "Manual"
               /\ Len(NewTrades) = 2
                    => /\ NewTrades[2].reason = "Flip Position"
                       /\ HasPnl(NewTrades[2])
                       /\ ~HasPnl(NewTrades[1])]_vars

\* an open that flipped has just returned its trade, the close of the old side under it
C19_Witness ==
    /\ ret.op = "executeOrder"
    /\ ret.trade # <<>>
    /\ Len(portfolio.tradeHistory) >= 3
    /\ portfolio.tradeHistory[1] = ret.trade[1]
    /\ portfolio.tradeHistory[2].reason = "Flip Position"

\* C20: a recompute is idempotent: in the state a recompute (updateCurrentPrice,
\* getPortfolio) leaves, another recompute at the same price changes nothing, neither a
\* position's high-water mark, trailing trigger, unrealizedPnL or pnlPercentage nor the
\* equity.
C20_RecomputeIdempotent ==
    ret.op \in {"updateCurrentPrice", "getPortfolio"}
        => calculateEquity(portfolio, currentPrice) = portfolio

\* a recompute has just ratcheted the high-water mark and the trailing trigger of a
\* position above where its open had set them
C20_Witness ==
    /\ ret.op \in {"updateCurrentPrice", "getPortfolio"}
    /\ \E i \in DOMAIN AllPositions :
          LET pos == AllPositions[i]
          IN /\ pos.side = "LONG"
             /\ pos.currentPrice = currentPrice
             /\ pos.highestPriceSinceEntry > pos.entryPrice
             /\ pos.trailingStopTrigger > (pos.entryPrice * (100 - pos.trailingStopPct)) \div 100
             /\ pos.unrealizedPnL > 0

\* the history marketMap holds for a symbol ([] for a symbol it has no entry for)
HistoryOf(map, symbol) == IF symbol \in DOMAIN map THEN map[symbol] ELSE <<>>

\* new is old after one tick: its last entry replaced by a candle of the same open
\* time, or a candle of another open time appended, the oldest entry dropped when that
\* makes more than MaxHistory
OneTickLater(old, new) ==
    /\ new # <<>>
    /\ LET tk == new[Len(new)]
       IN \/ /\ old # <<>> /\ old[Len(old)].time = tk.time
             /\ new = [old EXCEPT ![Len(old)] = tk]
          \/ /\ old = <<>> \/ old[Len(old)].time # tk.time
             /\ Len(old) < MaxHistory
             /\ new = Append(old, tk)
          \/ /\ old # <<>> /\ old[Len(old)].time # tk.time
             /\ Len(old) = MaxHistory
             /\ new = Append(Tail(old), tk)

C22_HistorySurvives ==
    [][/\ (socketOpen /\ ~socketOpen') => ret'.op = "onError"
       /\ \A s \in DOMAIN marketMap :
             \/ HistoryOf(marketMap', s) = marketMap[s]
             \/ OneTickLater(marketMap[s], HistoryOf(marketMap', s))]_vars

\* C23: liquidateAllPositions returns the number of positions it closed, which is the
\* number of close trades it appended, and when a current price is known it leaves
\* both buckets empty.
C23_LiquidationCount ==
    [][ret'.op = "liquidateAllPositions"
         => /\ ret'.value = Len(portfolio'.tradeHistory) - Len(portfolio.tradeHistory)
            /\ ret'.value = Len(AllPositions) - Len(AllPositions)'
            /\ currentPrice # 0
                 => /\ portfolio'.spotPositions = <<>>
                    /\ portfolio'.futuresPositions = <<>>]_vars

\* the part of C23 that holds: with a current price known, a liquidation counts its
\* closes and empties both buckets
C23_KnownPrice ==
    [][(ret'.op = "liquidateAllPositions" /\ currentPrice # 0)
         => /\ ret'.value = Len(portfolio'.tradeHistory) - Len(portfolio.tradeHistory)
            /\ portfolio'.spotPositions = <<>>
            /\ portfolio'.futuresPositions = <<>>]_vars

\* what a saved and a loaded portfolio are compared on
Equivalent(saved, loaded) ==
    /\ loaded.balance = saved.balance
    /\ loaded.equity = saved.equity
    /\ Len(loaded.spotPositions) = Len(saved.spotPositions)
    /\ Len(loaded.futuresPositions) = Len(saved.futuresPositions)
    /\ Len(loaded.tradeHistory) = Len(saved.tradeHistory)

C25_NoCredentialsFails ==
    [][(ret'.op = "executeOrder" /\ tradingMode = "REAL_MONEY" /\ ~HasApiKey(ret'.order))
         => /\ ret'.trade = <<>>
            /\ portfolio' = portfolio]_vars

\* the simulated fill of the order the last executeOrder step was given
SimulatedFill ==
    executeOrder([Engine EXCEPT !.tradingMode = "SIMULATION"], currentPrice, now, ret'.order)

\* C26: a spot BUY filled by the exchange at a cost equal to its budget returns, in
\* REAL_MONEY mode, the trade the simulation returns for it (but for the id) and leaves
\* the ledger the simulation leaves: the cash is reduced once, by the cost.
C26_LiveEqualsSimulation ==
    [][(/\ ret'.op = "executeOrder"
        /\ tradingMode = "REAL_MONEY"
        /\ HasApiKey(ret'.order)
        /\ ret'.order.credentials.secretKey # ""
        /\ ret'.order.reply = "filled"
        /\ ret'.order.action = "BUY")
         => /\ ret'.trade = SimulatedFill.trade
            /\ portfolio' = SimulatedFill.e.portfolio]_vars

\* C24: when the scout or the council rejects, the cycle it rejects in calls no
\* executeOrder and leaves the ledger and the store as they were, and the rejection
\* stays inside executeStrategyCycle: the invocation is over and the lock is released.
C24_ProviderFailureIsHold ==
    [][ret'.op = "catch"
         => /\ portfolio' = portfolio
            /\ db' = db
            /\ ret'.trade = <<>>
            /\ Len(cycles') = Len(cycles) - 1
            /\ ~isCouncilProcessing']_vars

\* a council that rejected while the ledger held a position
C24_Witness ==
    /\ ret.op = "catch"
    /\ cycles = <<>>
    /\ AllPositions # <<>>
    /\ currentPulse = MinPulse

\* C29: a non-forced cycle does not go on to call the decision provider sooner than
\* the active pulse after the previous cycle did, whatever way the previous cycle
\* ended; the pulse is maxPulse or minPulse.
C29_PulseCooldown ==
    [][/\ currentPulse' \in {MinPulse, MaxPulse}
       /\ (/\ "invoked" \in DOMAIN ret
           /\ Len(cycles') = Len(cycles) + 1
           /\ ~cycles'[Len(cycles')].forced)
            => now - ret.invoked >= currentPulse]_vars

\* C30: equityHistory never holds more than 1000 points, and what a step keeps of the
\* points it found is their newest part, in order: the points dropped are the oldest.
C30_BoundedFifo ==
    [][LET old == portfolio.equityHistory
           new == portfolio'.equityHistory
       IN /\ Len(new) <= MaxEquityHistory
          /\ \E dropped \in 0..Len(old) :
                /\ Len(new) >= Len(old) - dropped
                /\ SubSeq(new, 1, Len(old) - dropped) = SubSeq(old, dropped + 1, Len(old))
                /\ dropped > 0 => Len(new) = MaxEquityHistory]_vars

\* the history is full and its oldest point is no longer the first one ever captured
C30_Witness ==
    /\ Len(portfolio.equityHistory) = MaxEquityHistory
    /\ portfolio.equityHistory[1].time > StartTime + SnapshotIntervalMs + 1
    /\ ret.op = "executeOrder"
    /\ ret.trade # <<>>

\* a flip between its close and its open, or a liquidation between two of its closes
MidOperation ==
    \E i \in DOMAIN cycles : cycles[i].pc \in {"executeOrder", "liquidateAllPositions"}

C31_SnapshotSpacing ==
    \A i \in 1..(Len(portfolio.equityHistory) - 1) :
        portfolio.equityHistory[i + 1].time - portfolio.equityHistory[i].time
            >= SnapshotIntervalMs

\* the positions one of whose triggers the price the module holds has hit, as a scan
\* at that price sees them
Breached ==
    LET seen == calculateEquity(portfolio, currentPrice)
    IN IF currentPrice = 0 THEN {}
       ELSE {seen.spotPositions[i].id : i \in
                {j \in DOMAIN seen.spotPositions :
                    SpotTriggerReason(seen.spotPositions[j], currentPrice) # "none"}}
            \cup {seen.futuresPositions[i].id : i \in
                {j \in DOMAIN seen.futuresPositions :
                    FuturesTriggerReason(seen.futuresPositions[j], currentPrice) # "none"}}

\* C32: with trigger scans going on, the ledger does not hold a breached position for
\* ever: again and again no position in it has a trigger hit at the current price.
C32_TriggerLiveness == []<><<CheckTradeTriggers>>_vars => []<>(Breached = {})

\* C32, as one scan shows it: a scan does not return null while a breached position
\* remains in the ledger. A scan that returns null leaves the ledger and the price as
\* they were, so every scan after it returns null as well and the position stays.
C32_ScanNeverStuck ==
    (ret.op = "checkTradeTriggers" /\ Breached # {}) => ret.trade # <<>>

\* C32, the step of it: a scan made while some position is breached returns a trade,
\* closes a breached position and removes it.
C32_ScanCloses ==
    [][(ret'.op = "checkTradeTriggers" /\ Breached # {})
         => /\ ret'.trade # <<>>
            /\ ret'.closed[1].id \in Breached
            /\ \A i \in DOMAIN AllPositions' : AllPositions'[i].id # ret'.closed[1].id]_vars

\* C33: spotPositions holds at most one position per symbol, and so does
\* futuresPositions: an open on a symbol that has a position of the same side adds
\* no second entry.
C33_OnePositionPerSymbol ==
    /\ \A i, j \in DOMAIN portfolio.spotPositions :
          portfolio.spotPositions[i].symbol = portfolio.spotPositions[j].symbol => i = j
    /\ \A i, j \in DOMAIN portfolio.futuresPositions :
          portfolio.futuresPositions[i].symbol = portfolio.futuresPositions[j].symbol => i = j

\* the part of C33 that holds: the spot bucket holds one position per symbol
C33_OneSpotPositionPerSymbol ==
    \A i, j \in DOMAIN portfolio.spotPositions :
        portfolio.spotPositions[i].symbol = portfolio.spotPositions[j].symbol => i = j

\* C34: the cash never goes negative, whatever ticks, opens, closes, flips and
\* liquidations have happened, a price that gaps past a liquidation price included.
C34_CashNeverNegative == portfolio.balance >= 0

RECURSIVE SumMargin(_)
SumMargin(positions) ==
    IF positions = <<>> THEN 0
    ELSE OrZero(Head(positions).marginUsed) + SumMargin(Tail(positions))

RECURSIVE SumCostBasis(_)
SumCostBasis(positions) ==
    IF positions = <<>> THEN 0
    ELSE Value(Head(positions).amount, Head(positions).entryPrice)
         + SumCostBasis(Tail(positions))

\* the cash, the margin held by the futures positions and the cost basis of the coins
Funds(pf) == pf.balance + SumMargin(pf.futuresPositions) + SumCostBasis(pf.spotPositions)

RECURSIVE SumPnl(_)
SumPnl(trades) ==
    IF trades = <<>> THEN 0 ELSE OrZero(Head(trades).pnl) + SumPnl(Tail(trades))

\* C35: across every executeOrder call, balance + the marginUsed of the futures
\* positions + the cost basis of the spot positions changes by exactly the realized pnl
\* of what the call recorded (0 for an open or a merge).
C35_Conservation ==
    [][ret'.op = "executeOrder"
         => Funds(portfolio') - Funds(portfolio) = SumPnl(NewTrades)]_vars

\* the part of C35 that holds: a call that passes a fraction of at most 1 and removes
\* no position, or removes one it has closed in full, conserves the funds
C35_ConservedButDust ==
    [][(/\ ret'.op = "executeOrder"
        /\ ret'.value <= PctScale
        /\ \/ Len(AllPositions') >= Len(AllPositions)
           \/ ret'.trade[1].amount = ret'.closed[1].amount)
         => Funds(portfolio') - Funds(portfolio) = SumPnl(NewTrades)]_vars

\* C39: a close never exceeds the holding: the amount a close or a sell closes is at
\* most the amount of the position it found, the margin a futures close releases is at
\* most the position's marginUsed, and a sell credits the cash with no more than the
\* coins held are worth, whatever fraction is passed.
C39_CloseWithinHolding ==
    [][(ret'.op = "executeOrder" /\ ret'.closed # <<>>)
         => LET trade == ret'.trade[1]
                pos == ret'.closed[1]
            IN /\ trade.amount <= pos.amount
               /\ trade.marketType = "FUTURES" => trade.cost <= OrZero(pos.marginUsed)
               /\ trade.marketType = "SPOT"
                    => portfolio'.balance - portfolio.balance
                          <= Value(pos.amount, trade.price)]_vars

\* the part of C39 that holds: a close of a fraction of at most 1 stays within the
\* holding
C39_WithinHoldingUpToAll ==
    [][(ret'.op = "executeOrder" /\ ret'.closed # <<>> /\ ret'.value <= PctScale)
         => LET trade == ret'.trade[1]
                pos == ret'.closed[1]
            IN /\ trade.amount <= pos.amount
               /\ trade.marketType = "FUTURES" => trade.cost <= OrZero(pos.marginUsed)
               /\ trade.marketType = "SPOT"
                    => portfolio'.balance - portfolio.balance
                          <= Value(pos.amount, trade.price)]_vars

\* marketMap holds a history for the symbol, and the close of its last candle
Known(map, symbol) == symbol \in DOMAIN map /\ map[symbol] # <<>>

LastClose(map, symbol) == map[symbol][Len(map[symbol])].close

\* C36: every trade recorded for a symbol (from an order, a trigger close) carries the
\* most recent tick close of that symbol as its price, and a recompute values a
\* position at the most recent tick close of its own symbol, also when several symbols
\* are watched.
C36_OwnSymbolPricing ==
    [][/\ \A k \in DOMAIN NewTrades :
             Known(marketMap', NewTrades[k].symbol)
                => NewTrades[k].price = LastClose(marketMap', NewTrades[k].symbol)
       /\ (ret'.op = "useEffect" /\ Known(marketMap, activeSymbol))
            => \A i \in DOMAIN AllPositions' :
                  Known(marketMap, AllPositions'[i].symbol)
                     => AllPositions'[i].currentPrice
                           = LastClose(marketMap, AllPositions'[i].symbol)]_vars

\* C36, where the module's price is the last close of the active symbol (the price-sync
\* effect has run since the last tick): a trade recorded for a symbol then carries the
\* most recent tick close of that symbol.
C36_OwnSymbolPricingSynced ==
    [][\A k \in DOMAIN NewTrades :
          (~syncPending /\ ret'.op = "executeOrder" /\ Known(marketMap, NewTrades[k].symbol))
             => NewTrades[k].price = LastClose(marketMap, NewTrades[k].symbol)]_vars

\* the last call was a checkCircuitBreaker that found a cool-down elapsed and cleared
\* it: it returned 0 and left no trigger time although the three newest closed trades
\* are losses (a call that finds them with no cool-down recorded activates, C8)
JustCleared ==
    /\ ret.op = "checkCircuitBreaker"
    /\ ret.value = 0
    /\ ~Truthy(portfolioProp.circuitBreakerTriggered)
    /\ ThreeNewestAreLosses

\* C37: the breaker does not re-arm on old losses: the checkCircuitBreaker call that
\* follows the clearing of an elapsed cool-down, no trade having been recorded in
\* between, does not activate the breaker again.
C37_NoRearmOnOldLosses ==
    [][(JustCleared /\ ret'.op = "checkCircuitBreaker")
         => /\ ret'.value = 0
            /\ ~Truthy(portfolioProp'.circuitBreakerTriggered)]_vars

\* C38: a position whose trailingStopPct is set has a trailingStopTrigger set, a spot
\* position that got its trailing setting through a merge buy included.
C38_ArmedTrailingStop ==
    \A i \in DOMAIN AllPositions :
        Truthy(AllPositions[i].trailingStopPct) => Truthy(AllPositions[i].trailingStopTrigger)

\* the part of C38 that holds: a futures position whose trailingStopPct is set has a
\* trailingStopTrigger
C38_ArmedFuturesTrailingStop ==
    \A i \in DOMAIN portfolio.futuresPositions :
        Truthy(portfolio.futuresPositions[i].trailingStopPct)
            => Truthy(portfolio.futuresPositions[i].trailingStopTrigger)

\* C40: the decision lock is always released: whenever isCouncilProcessingRef is set
\* it is reset later on, the calls the cycle awaits settling sooner or later, on every
\* path of the cycle (trade, HOLD, quiet-market exit, too little history, provider
\* error).
C40_LockReleased == isCouncilProcessing ~> ~isCouncilProcessing

\* a cycle that switched to a symbol without history has ended at the test for too
\* little history and has left the lock free
C40_Witness ==
    /\ ret.op = "setTimeout"
    /\ ~isCouncilProcessing
    /\ cycles = <<>>
    /\ activeSymbol = "ETHUSDT"
    /\ currentPulse = MinPulse
    /\ lastCouncilCall = 0
====
